---- MODULE Spec2Model ----
(***************************************************************************)
(* Model of the report-output builders of services/rag-api/main.py         *)
(* (build_penetapan_output, build_pelaksanaan_output and their helpers)    *)
(* and of the /ingest operation of services/gpuComp/main.py.               *)
(*                                                                         *)
(* Text is a sequence of one-character strings, so that lower(), strip(),  *)
(* split(), int(), the substring test and SequenceMatcher.ratio() are      *)
(* computed character by character as Python computes them.               *)
(***************************************************************************)
EXTENDS Integers, Sequences, FiniteSets, TLC

(***************************************************************************)
(* Characters and Python string operations                                 *)
(***************************************************************************)

\* The characters used by the model, in ascending code point order.
Ascii ==
  << "\t", "\n", " ", "+", ",", "-", ".", "/",
     "0", "1", "2", "3", "4", "5", "6", "7", "8", "9", ":",
     "A", "B", "C", "D", "E", "F", "G", "H", "I", "J", "K", "L", "M",
     "N", "O", "P", "Q", "R", "S", "T", "U", "V", "W", "X", "Y", "Z",
     "_",
     "a", "b", "c", "d", "e", "f", "g", "h", "i", "j", "k", "l", "m",
     "n", "o", "p", "q", "r", "s", "t", "u", "v", "w", "x", "y", "z",
     "{", "|", "}" >>

Rank(c) == CHOOSE i \in 1..Len(Ascii) : Ascii[i] = c

UpperFirst == Rank("A")

UpperLast == Rank("Z")

LowerOffset == Rank("a") - Rank("A")

\* str.lower() on one character.
LowerChar(c) ==
  IF Rank(c) >= UpperFirst /\ Rank(c) <= UpperLast
    THEN Ascii[Rank(c) + LowerOffset]
    ELSE c

\* str.lower()
Lower(s) == [i \in 1..Len(s) |-> LowerChar(s[i])]

Whitespace == {" ", "\n", "\t"}

RECURSIVE LStrip(_)
LStrip(s) ==
  IF s # <<>> /\ Head(s) \in Whitespace THEN LStrip(Tail(s)) ELSE s

RECURSIVE RStrip(_)
RStrip(s) ==
  IF s # <<>> /\ s[Len(s)] \in Whitespace
    THEN RStrip(SubSeq(s, 1, Len(s) - 1))
    ELSE s

\* str.strip()
Strip(s) == RStrip(LStrip(s))

\* needle in haystack (Python's substring test)
Contains(hay, needle) ==
  \E i \in 0..(Len(hay) - Len(needle)) :
    SubSeq(hay, i + 1, i + Len(needle)) = needle

\* a < b for two strings (lexicographic by code point)
RECURSIVE StrLess(_, _)
StrLess(a, b) ==
  IF b = <<>> THEN FALSE
  ELSE IF a = <<>> THEN TRUE
  ELSE IF Rank(Head(a)) # Rank(Head(b)) THEN Rank(Head(a)) < Rank(Head(b))
  ELSE StrLess(Tail(a), Tail(b))

\* s.split(sep) for a one-character separator
RECURSIVE SplitOn(_, _)
SplitOn(s, sep) ==
  IF \E i \in 1..Len(s) : s[i] = sep
    THEN LET i == CHOOSE k \in 1..Len(s) :
                    s[k] = sep /\ \A m \in 1..(k - 1) : s[m] # sep
         IN  <<SubSeq(s, 1, i - 1)>> \o SplitOn(SubSeq(s, i + 1, Len(s)), sep)
    ELSE <<s>>

\* Path(s).name for a POSIX path: the last component, where the empty
\* components and the "." components are dropped; "" where none is left.
BaseName(s) ==
  LET parts == SelectSeq(SplitOn(s, "/"),
                         LAMBDA part : part # <<>> /\ part # <<".">>)
  IN  IF parts = <<>> THEN <<>> ELSE parts[Len(parts)]

(***************************************************************************)
(* Python values of a payload field: None, an int or a str                 *)
(***************************************************************************)

None == [t |-> "none", v |-> 0, s |-> <<>>]

PyI(n) == [t |-> "int", v |-> n, s |-> <<>>]

PyS(str) == [t |-> "str", v |-> 0, s |-> str]

\* bool(x)
Truthy(x) ==
  CASE x.t = "none" -> FALSE
    [] x.t = "int" -> x.v # 0
    [] OTHER -> x.s # <<>>

\* a or b
PyOr(a, b) == IF Truthy(a) THEN a ELSE b

Digits == {"0", "1", "2", "3", "4", "5", "6", "7", "8", "9"}

DigitVal(c) == Rank(c) - Rank("0")

RECURSIVE DigitsValue(_)
DigitsValue(s) ==
  IF s = <<>> THEN 0
  ELSE 10 * DigitsValue(SubSeq(s, 1, Len(s) - 1)) + DigitVal(s[Len(s)])

\* The digits of a decimal literal: digits with single underscores between
\* them.
IsDigitGroup(d) ==
  /\ d # <<>>
  /\ \A i \in 1..Len(d) : d[i] \in Digits \cup {"_"}
  /\ d[1] # "_" /\ d[Len(d)] # "_"
  /\ \A i \in 1..(Len(d) - 1) : ~(d[i] = "_" /\ d[i + 1] = "_")

WithoutUnderscores(d) == SelectSeq(d, LAMBDA c : c # "_")

\* int(x): ok is FALSE where Python raises TypeError or ValueError. A string
\* is stripped and read as an optional sign and a group of digits.
PyInt(x) ==
  CASE x.t = "none" -> [ok |-> FALSE, v |-> 0]
    [] x.t = "int" -> [ok |-> TRUE, v |-> x.v]
    [] OTHER ->
         LET b == Strip(x.s)
             signed == b # <<>> /\ Head(b) \in {"+", "-"}
             d == IF signed THEN Tail(b) ELSE b
             value == DigitsValue(WithoutUnderscores(d))
         IN  IF ~IsDigitGroup(d) THEN [ok |-> FALSE, v |-> 0]
             ELSE [ok |-> TRUE,
                   v |-> IF signed /\ Head(b) = "-" THEN 0 - value ELSE value]

(***************************************************************************)
(* Sorting as list.sort(key=...) does: stable, and a TypeError when an int *)
(* key meets a str key.                                                    *)
(***************************************************************************)

\* item.get("order") or 0
OrderKey(o) == PyOr(o, PyI(0))

KeyLess(a, b) ==
  IF a.t = "int" /\ b.t = "int" THEN a.v < b.v ELSE StrLess(a.s, b.s)

\* The sort raises TypeError: two keys of different types are compared.
SortRaises(orders) ==
  \E i, j \in 1..Len(orders) : OrderKey(orders[i]).t # OrderKey(orders[j]).t

RECURSIVE InsertByKey(_, _)
InsertByKey(sorted, e) ==
  IF sorted = <<>> THEN <<e>>
  ELSE IF KeyLess(OrderKey(e.order), OrderKey(sorted[Len(sorted)].order))
    THEN InsertByKey(SubSeq(sorted, 1, Len(sorted) - 1), e)
           \o <<sorted[Len(sorted)]>>
    ELSE Append(sorted, e)

\* items.sort(key=lambda item: item.get("order") or 0)
RECURSIVE SortByOrder(_)
SortByOrder(items) ==
  IF items = <<>> THEN <<>>
  ELSE InsertByKey(SortByOrder(SubSeq(items, 1, Len(items) - 1)),
                   items[Len(items)])

(***************************************************************************)
(* difflib.SequenceMatcher(None, a, b).ratio()                             *)
(* No element is junk (isjunk is None), and the "popular element"          *)
(* heuristic only applies to a second string of 200 or more characters;    *)
(* the strings of the model are shorter.                                   *)
(***************************************************************************)

\* Length of the common run a[i..], b[j..] inside [.., ahi) x [.., bhi)
\* (indices from 0).
RECURSIVE CommonRun(_, _, _, _, _, _)
CommonRun(a, b, i, j, ahi, bhi) ==
  IF i < ahi /\ j < bhi /\ a[i + 1] = b[j + 1]
    THEN 1 + CommonRun(a, b, i + 1, j + 1, ahi, bhi)
    ELSE 0

MaxOf(S) == CHOOSE m \in S : \A n \in S : n <= m

MinOf(S) == CHOOSE m \in S : \A n \in S : m <= n

\* find_longest_match(alo, ahi, blo, bhi): the longest matching block, of
\* those the one starting earliest in a, of those the one starting earliest
\* in b. <<alo, blo, 0>> when nothing matches.
FindLongestMatch(a, b, alo, ahi, blo, bhi) ==
  LET starts == (alo..(ahi - 1)) \X (blo..(bhi - 1))
      runs == {<<p[1], p[2], CommonRun(a, b, p[1], p[2], ahi, bhi)>> :
                 p \in starts}
      best == IF starts = {} THEN 0 ELSE MaxOf({r[3] : r \in runs})
  IN  IF best = 0 THEN <<alo, blo, 0>>
      ELSE LET longest == {r \in runs : r[3] = best}
               i == MinOf({r[1] : r \in longest})
               j == MinOf({r[2] : r \in {q \in longest : q[1] = i}})
           IN  <<i, j, best>>

\* Sum of the sizes of get_matching_blocks(): the longest match, then the
\* same on the pieces to its left and to its right.
RECURSIVE MatchingSize(_, _, _, _, _, _)
MatchingSize(a, b, alo, ahi, blo, bhi) ==
  LET m == FindLongestMatch(a, b, alo, ahi, blo, bhi)
  IN  IF m[3] = 0 THEN 0
      ELSE m[3]
           + MatchingSize(a, b, alo, m[1], blo, m[2])
           + MatchingSize(a, b, m[1] + m[3], ahi, m[2] + m[3], bhi)

\* ratio() as the fraction num/den: 2.0 * matches / (len(a) + len(b)), and
\* 1.0 for two empty strings.
Ratio(a, b) ==
  IF Len(a) + Len(b) = 0 THEN [num |-> 1, den |-> 1]
  ELSE [num |-> 2 * MatchingSize(a, b, 0, Len(a), 0, Len(b)),
        den |-> Len(a) + Len(b)]

\* Comparisons of two fractions with positive denominators.
FracGreater(x, y) == x.num * y.den > y.num * x.den

FracGeq(x, y) == x.num * y.den >= y.num * x.den

FracZero == [num |-> 0, den |-> 1]

\* sorted(set of strings) as a sequence
RECURSIVE SortedStrings(_)
SortedStrings(S) ==
  IF S = {} THEN <<>>
  ELSE LET m == CHOOSE x \in S : \A y \in S : ~StrLess(y, x)
       IN  <<m>> \o SortedStrings(S \ {m})

\* score >= threshold for a finite score and any float threshold. The
\* floats inf, -inf and nan are the fractions 1/0, -1/0 and 0/0: no score
\* reaches inf or nan, every score reaches -inf.
ScoreGeq(score, threshold) ==
  IF threshold.den = 0 THEN threshold.num < 0 ELSE FracGeq(score, threshold)

ScoreGreater(score, threshold) ==
  IF threshold.den = 0 THEN threshold.num < 0
  ELSE FracGreater(score, threshold)

\* float(s) as the fraction num/den; ok is FALSE where Python raises
\* ValueError. The stripped text is an optional sign followed by inf,
\* infinity or nan in any case, or by a decimal: digit groups around an
\* optional ".", at least one of them present, and an optional exponent
\* e or E with an optional sign and a digit group. The fraction is the
\* exact decimal value.
PyFloat(str) ==
  LET b == Strip(str)
      signed == b # <<>> /\ Head(b) \in {"+", "-"}
      negative == signed /\ Head(b) = "-"
      r == IF signed THEN Tail(b) ELSE b
      word == Lower(r)
      at == {i \in 1..Len(r) : r[i] \in {"e", "E"}}
      mantissa == IF at = {} THEN r ELSE SubSeq(r, 1, MinOf(at) - 1)
      exponent == IF at = {} THEN <<>> ELSE SubSeq(r, MinOf(at) + 1, Len(r))
      esigned == exponent # <<>> /\ Head(exponent) \in {"+", "-"}
      edigits == IF esigned THEN Tail(exponent) ELSE exponent
      parts == SplitOn(mantissa, ".")
      ip == parts[1]
      fp == IF Len(parts) = 2 THEN parts[2] ELSE <<>>
      good == /\ Len(parts) <= 2
              /\ ip # <<>> \/ fp # <<>>
              /\ ip = <<>> \/ IsDigitGroup(ip)
              /\ fp = <<>> \/ IsDigitGroup(fp)
              /\ at = {} \/ IsDigitGroup(edigits)
      digits == WithoutUnderscores(ip) \o WithoutUnderscores(fp)
      e == IF at = {} THEN 0
           ELSE IF esigned /\ Head(exponent) = "-"
             THEN 0 - DigitsValue(WithoutUnderscores(edigits))
           ELSE DigitsValue(WithoutUnderscores(edigits))
      shift == e - Len(WithoutUnderscores(fp))
      value == DigitsValue(digits)
  IN  IF word \in {<<"i", "n", "f">>,
                   <<"i", "n", "f", "i", "n", "i", "t", "y">>}
        THEN [ok |-> TRUE, num |-> IF negative THEN 0 - 1 ELSE 1, den |-> 0]
      ELSE IF word = <<"n", "a", "n">> THEN [ok |-> TRUE, num |-> 0, den |-> 0]
      ELSE IF ~good THEN [ok |-> FALSE, num |-> 0, den |-> 1]
      ELSE [ok |-> TRUE,
            num |-> (IF negative THEN 0 - value ELSE value)
                      * (IF shift > 0 THEN 10 ^ shift ELSE 1),
            den |-> IF shift < 0 THEN 10 ^ (0 - shift) ELSE 1]

(***************************************************************************)
(* Process-wide configuration                                              *)
(***************************************************************************)

DEFAULT_PENETAPAN_ALLOWED_ORDERS == {0, 5, 10, 15, 20, 25, 30, 35, 40}

DEFAULT_PELAKSANAAN_ALLOWED_ORDERS == {1, 6, 11, 16, 21, 26, 31, 36, 41}

\* PENETAPAN_LINK_SIMILARITY, 0.6
DEFAULT_SIMILARITY_THRESHOLD == [num |-> 6, den |-> 10]

(***************************************************************************)
(* Option coercion                                                         *)
(* A raw option value is [t, items, s]: t = "none" (key absent or null),   *)
(* "list" (items: the elements), "str" (s: the text), "other" (any other   *)
(* JSON value, such as a number or an object).                             *)
(***************************************************************************)

RawNone == [t |-> "none", items |-> <<>>, s |-> <<>>]

RawList(items) == [t |-> "list", items |-> items, s |-> <<>>]

RawStr(str) == [t |-> "str", items |-> <<>>, s |-> str]

RawOther == [t |-> "other", items |-> <<>>, s |-> <<>>]

\* bool(raw); the "other" values of the model are truthy
RawTruthy(raw) ==
  CASE raw.t = "none" -> FALSE
    [] raw.t = "list" -> raw.items # <<>>
    [] raw.t = "str" -> raw.s # <<>>
    [] OTHER -> TRUE

\* a or b for two raw option values
RawOr(a, b) == IF RawTruthy(a) THEN a ELSE b

\* [item.strip() for item in raw.split(',') if item.strip()]
StrippedItems(str) ==
  LET parts == SplitOn(str, ",")
      stripped == [i \in 1..Len(parts) |-> PyS(Strip(parts[i]))]
  IN  SelectSeq(stripped, LAMBDA x : x.s # <<>>)

\* _coerce_allowed_orders(raw_orders, default)
CoerceAllowedOrders(raw_orders, default) ==
  IF raw_orders.t \in {"none", "other"} THEN default
  ELSE LET values == IF raw_orders.t = "list" THEN raw_orders.items
                     ELSE StrippedItems(raw_orders.s)
           coerced == {PyInt(values[i]).v :
                         i \in {k \in 1..Len(values) : PyInt(values[k]).ok}}
       IN  IF coerced # {} THEN coerced ELSE default

\* _coerce_reference_files(source); the elements of a list are strings
CoerceReferenceFiles(source) ==
  CASE source.t = "str" -> <<source.s>>
    [] source.t = "list" ->
         SelectSeq(source.items, LAMBDA item : Strip(item) # <<>>)
    [] OTHER -> <<>>

\* _extract_order(payload, metadata_payload)
ExtractOrder(payload) ==
  LET value == IF payload.metadata_order.t # "none"
                 THEN payload.metadata_order ELSE payload.order
      parsed == PyInt(value)
  IN  IF parsed.ok THEN PyI(parsed.v) ELSE value

(***************************************************************************)
(* get_semantic_chunker(): RecursiveCharacterTextSplitter(chunk_size,      *)
(* chunk_overlap) with its default separators, keeping each separator at   *)
(* the start of the piece that follows it and stripping every chunk.       *)
(***************************************************************************)

\* CHUNK_SIZE and CHUNK_OVERLAP are read from the environment; the model
\* runs the deployment CHUNK_SIZE=12 (unset: 1000), CHUNK_OVERLAP unset.
CHUNK_SIZE == 12

CHUNK_OVERLAP == 200

Max2(a, b) == IF a >= b THEN a ELSE b

Min2(a, b) == IF a <= b THEN a ELSE b

chunk_size == Max2(1, CHUNK_SIZE)

chunk_overlap == Max2(0, Min2(chunk_size - 1, CHUNK_OVERLAP))

Separators == << <<"\n", "\n">>, <<"\n">>, <<" ">>, <<>> >>

StartsWith(s, prefix) ==
  Len(s) >= Len(prefix) /\ SubSeq(s, 1, Len(prefix)) = prefix

\* The pieces of re.split on a non-empty separator, each piece after the
\* first starting with the separator; cur is the piece being read.
RECURSIVE SplitKeep(_, _, _)
SplitKeep(s, sep, cur) ==
  IF s = <<>> THEN <<cur>>
  ELSE IF StartsWith(s, sep)
    THEN <<cur>> \o SplitKeep(SubSeq(s, Len(sep) + 1, Len(s)), sep, sep)
    ELSE SplitKeep(Tail(s), sep, Append(cur, Head(s)))

\* _split_text_with_regex(text, separator, keep_separator=True)
SplitWithSeparator(text, sep) ==
  LET raw == IF sep = <<>> THEN [i \in 1..Len(text) |-> <<text[i]>>]
             ELSE SplitKeep(text, sep, <<>>)
  IN  SelectSeq(raw, LAMBDA piece : piece # <<>>)

RECURSIVE Concat(_)
Concat(pieces) ==
  IF pieces = <<>> THEN <<>> ELSE Head(pieces) \o Concat(Tail(pieces))

RECURSIVE TotalLen(_)
TotalLen(pieces) ==
  IF pieces = <<>> THEN 0 ELSE Len(Head(pieces)) + TotalLen(Tail(pieces))

\* The while loop of _merge_splits: drop pieces from the front of the
\* current chunk until what is left fits the overlap and the next piece.
RECURSIVE DropForOverlap(_, _)
DropForOverlap(current, len) ==
  IF \/ TotalLen(current) > chunk_overlap
     \/ (TotalLen(current) + len > chunk_size /\ TotalLen(current) > 0)
    THEN DropForOverlap(Tail(current), len)
    ELSE current

\* _join_docs: the stripped chunk, nothing when it is empty
JoinDocs(current) ==
  IF Strip(Concat(current)) = <<>> THEN <<>> ELSE <<Strip(Concat(current))>>

\* _merge_splits(splits, "")
RECURSIVE MergeSplits(_, _)
MergeSplits(splits, current) ==
  IF splits = <<>> THEN JoinDocs(current)
  ELSE LET d == Head(splits)
       IN  IF TotalLen(current) + Len(d) > chunk_size /\ current # <<>>
             THEN JoinDocs(current)
                  \o MergeSplits(Tail(splits),
                                 Append(DropForOverlap(current, Len(d)), d))
             ELSE MergeSplits(Tail(splits), Append(current, d))

\* The separator _split_text picks: the first that is empty or occurs in
\* the text.
Occurs(text, sep) == sep = <<>> \/ Contains(text, sep)

PickSeparator(text, from) ==
  CHOOSE k \in from..Len(Separators) :
    /\ Occurs(text, Separators[k])
    /\ \A m \in from..(k - 1) : ~Occurs(text, Separators[m])

\* _split_text(text, separators[from:])
RECURSIVE SplitText(_, _)
SplitText(text, from) ==
  LET k == PickSeparator(text, from)
      splits == SplitWithSeparator(text, Separators[k])
      last == k = Len(Separators)
      \* F[i]: <<final chunks, good splits not yet merged>> after i splits
      F[i \in 0..Len(splits)] ==
        IF i = 0 THEN << <<>>, <<>> >>
        ELSE LET piece == splits[i]
                 done == F[i - 1][1]
                 good == F[i - 1][2]
             IN  IF Len(piece) < chunk_size
                   THEN <<done, Append(good, piece)>>
                   ELSE << done
                           \o (IF good # <<>> THEN MergeSplits(good, <<>>)
                               ELSE <<>>)
                           \o (IF last THEN <<piece>>
                               ELSE SplitText(piece, k + 1)),
                           <<>> >>
      end == F[Len(splits)]
  IN  end[1] \o (IF end[2] # <<>> THEN MergeSplits(end[2], <<>>) ELSE <<>>)

\* chunker.split_documents([doc]): the texts of the chunks of one document
SplitDocument(text) == SplitText(text, 1)

PELAKSANAAN_REFERENCE_TOP_K == 1

PELAKSANAAN_NESTED_TOP_K == 1

\* section index -> <<reference collection, new-reference collection>>
DEFAULT_PELAKSANAAN_SECTION_COLLECTIONS ==
    (0 :> << <<"r", "k", "a", "_", "2", "_", "1">>, <<"r", "p", "l", "_", "2", "_", "1">> >>)
    @@ (2 :> << <<"r", "k", "a", "_", "2", "_", "2">>, <<"r", "p", "l", "_", "2", "_", "2">> >>)
    @@ (3 :> << <<"r", "k", "a", "_", "2", "_", "3">>, <<"r", "p", "l", "_", "2", "_", "3">> >>)
    @@ (4 :> << <<"r", "k", "a", "_", "2", "_", "4">>, <<"r", "p", "l", "_", "2", "_", "4">> >>)
    @@ (5 :> << <<"r", "k", "a", "_", "2", "_", "5">>, <<"r", "p", "l", "_", "2", "_", "5">> >>)
    @@ (6 :> << <<"r", "k", "a", "_", "2", "_", "6">>, <<"r", "p", "l", "_", "2", "_", "6">> >>)
    @@ (7 :> << <<"r", "k", "a", "_", "2", "_", "7">>, <<"r", "p", "l", "_", "2", "_", "7">> >>)
    @@ (8 :> << <<"r", "k", "a", "_", "2", "_", "8">>, <<"r", "p", "l", "_", "2", "_", "8">> >>)
    @@ (9 :> << <<"r", "k", "a", "_", "2", "_", "9">>, <<"r", "p", "l", "_", "2", "_", "9">> >>)

\* _coerce_positive_int(value, fallback, minimum=1)
CoercePositiveInt(value, fallback) ==
  IF PyInt(value).ok THEN Max2(1, PyInt(value).v) ELSE Max2(1, fallback)

(***************************************************************************)
(* _coerce_section_collections                                             *)
(* A raw map is [t, entries, s]: t = "none", "dict" (entries: <<key,       *)
(* value>> pairs in the object's order, the keys JSON strings), "list"     *)
(* (entries: the values), "str" (s: JSON text) or "other". A value is      *)
(* [t, items, reference, new, s]: "list" (items: strings), "dict" (the     *)
(* first truthy of its reference keys and of its new keys, "" when none),  *)
(* "str" (s) or "other".                                                   *)
(***************************************************************************)

SecNone == [t |-> "none", entries |-> <<>>, s |-> <<>>]

SecDict(entries) == [t |-> "dict", entries |-> entries, s |-> <<>>]

SecList(values) ==
  [t |-> "list", entries |-> [i \in 1..Len(values) |-> <<None, values[i]>>],
   s |-> <<>>]

ValList(items) ==
  [t |-> "list", items |-> items, reference |-> <<>>, new |-> <<>>, s |-> <<>>]

ValDict(ref, new) ==
  [t |-> "dict", items |-> <<>>, reference |-> ref, new |-> new, s |-> <<>>]

ValStr(str) ==
  [t |-> "str", items |-> <<>>, reference |-> <<>>, new |-> <<>>, s |-> str]

\* bool(raw_map)
SecTruthy(raw) ==
  CASE raw.t = "none" -> FALSE
    [] raw.t \in {"dict", "list"} -> raw.entries # <<>>
    [] raw.t = "str" -> raw.s # <<>>
    [] OTHER -> TRUE

\* value.split('|', 1), each part stripped
SplitBar(str) ==
  LET i == CHOOSE k \in 1..Len(str) :
             str[k] = "|" /\ \A m \in 1..(k - 1) : str[m] # "|"
  IN  <<Strip(SubSeq(str, 1, i - 1)), Strip(SubSeq(str, i + 1, Len(str)))>>

\* Lines 264-288: the <<ref_col, new_col>> read from one value; an empty
\* name stands for None.
SectionPair(value) ==
  CASE value.t = "list" /\ Len(value.items) >= 2 ->
         <<Strip(value.items[1]), Strip(value.items[2])>>
    [] value.t = "dict" -> <<Strip(value.reference), Strip(value.new)>>
    [] value.t = "str" /\ Contains(value.s, <<"|">>) -> SplitBar(value.s)
    [] OTHER -> << <<>>, <<>> >>

\* Lines 249-260: the (index, value) items of a parsed dict or list.
SectionItems(parsed) ==
  IF parsed.t = "list"
    THEN [i \in 1..Len(parsed.entries) |-> <<i - 1, parsed.entries[i][2]>>]
    ELSE LET keyed == SelectSeq(parsed.entries,
                                LAMBDA e : PyInt(e[1]).ok)
         IN  [i \in 1..Len(keyed) |-> <<PyInt(keyed[i][1]).v, keyed[i][2]>>]

\* _coerce_section_collections(raw_map, default_map); the JSON texts of the
\* model do not parse (json.loads raises JSONDecodeError).
CoerceSectionCollections(raw_map, default_map) ==
  IF ~SecTruthy(raw_map) \/ raw_map.t \in {"str", "other"} THEN default_map
  ELSE LET items == SectionItems(raw_map)
           valid(i) == /\ SectionPair(items[i][2])[1] # <<>>
                       /\ SectionPair(items[i][2])[2] # <<>>
           keys == {items[i][1] : i \in {k \in 1..Len(items) : valid(k)}}
           lastOf(key) == CHOOSE i \in 1..Len(items) :
                            /\ items[i][1] = key
                            /\ valid(i)
                            /\ \A m \in (i + 1)..Len(items) :
                                 ~(items[m][1] = key /\ valid(m))
           result == [key \in keys |-> SectionPair(items[lastOf(key)][2])]
       IN  IF keys # {} THEN result ELSE default_map


(***************************************************************************)
(* State                                                                   *)
(***************************************************************************)

VARIABLES
  builder,              \* "penetapan" or "pelaksanaan": the output type asked
  pc,                   \* the builder's position
  status,               \* 0 while running, then the HTTP status of the call
  documents,            \* the document collection: [present, points]
  hyperlinks,           \* the hyperlink collection: [present, points]
  report,               \* the report's own collection: [present, points]
  metadata,             \* the request's options
  allowed_orders,       \* locals of the builders, named as in the code
  reference_files,
  similarity_threshold,
  penetapan_entries,
  hyperlink_map,
  penetapan_hyperlink,
  total_links,
  pos,                  \* index of the next element of the running loop
  section_collections,  \* locals of build_pelaksanaan_output
  reference_top_k,
  nested_top_k,
  heading_to_query_map,
  narasi_chunks,
  active_key,
  title_locations,
  found_titles,
  queried,              \* the similarity queries made so far, one record per
                        \* sub-chunk that reached stage 1
  payload,              \* the returned payload: [summary, results]
  meta,                 \* the returned metadata map
  request,              \* the form of an /ingest call of the GPU service
  ingest_pc,            \* position of the ingest handler
  temp_files,           \* the temporary files that exist
  temp_dirs,            \* the temporary directories that exist
  archive_path,         \* locals of ingest: None or a path
  workdir,
  written,              \* chunks of the upload written by persist_upload
  loaded,               \* the documents load_documents returned
  pending,              \* what the try block of ingest ended with
  ingest_status         \* the status the ingest call ended with

inputVars == <<builder, documents, hyperlinks, report, metadata>>

gpuVars == <<request, ingest_pc, temp_files, temp_dirs, archive_path, workdir,
             written, loaded, pending, ingest_status>>

optionVars == <<allowed_orders, reference_files, similarity_threshold>>

penVars == <<reference_files, similarity_threshold, total_links>>

pelVars == <<section_collections, reference_top_k, nested_top_k,
             heading_to_query_map, narasi_chunks, active_key,
             title_locations, found_titles, queried>>

NoHeading == ""

\* payload["metadata"].get("heading") is None or "" for NoHeading
HasHeading(h) == h # NoHeading

\* hyperlink_map.get(heading, [])
MapGet(map, heading) ==
  IF heading \in DOMAIN map THEN map[heading] ELSE <<>>

\* scroll_all_points as it would be if the optional scan raised as the
\* required one does.
ScrollAllPointsRequired(collection, required) ==
  IF collection.present THEN [raised |-> FALSE, records |-> collection.points]
  ELSE [raised |-> TRUE, records |-> <<>>]

\* scroll_all_points(collection_name, required): [found, records]; an absent
\* collection raises 404 when required and gives [] when optional.
ScrollAllPoints(collection, required) ==
  IF collection.present THEN [raised |-> FALSE, records |-> collection.points]
  ELSE [raised |-> required, records |-> <<>>]

\* _discover_reference_files(report_uuid, metadata)
DiscoverReferenceFiles(md, rep) ==
  LET explicit == CoerceReferenceFiles(
                    RawOr(md.reference_files,
                          RawOr(md.reference_filenames, md.files)))
      records == ScrollAllPoints(rep, FALSE).records
      names == [i \in 1..Len(records) |->
                  IF BaseName(records[i].source) # <<>>
                    THEN BaseName(records[i].source) ELSE records[i].source]
      fresh(i) == /\ records[i].source # <<>>
                  /\ \A k \in 1..(i - 1) :
                       records[k].source = <<>> \/ names[k] # names[i]
      F[i \in 0..Len(records)] ==
        IF i = 0 THEN <<>>
        ELSE IF fresh(i) THEN Append(F[i - 1], names[i]) ELSE F[i - 1]
  IN  IF explicit # <<>> THEN explicit ELSE F[Len(records)]

\* float(metadata.get("similarity_threshold") or DEFAULT_SIMILARITY_THRESHOLD)
\* A raw threshold is [t, num, den, s]: "none", "num" (num/den) or "str" (s).
CoerceThreshold(raw) ==
  CASE raw.t = "num" /\ raw.num # 0 ->
         [ok |-> TRUE, num |-> raw.num, den |-> raw.den]
    [] raw.t = "str" /\ raw.s # <<>> -> PyFloat(raw.s)
    [] OTHER -> [ok |-> TRUE, num |-> DEFAULT_SIMILARITY_THRESHOLD.num,
                 den |-> DEFAULT_SIMILARITY_THRESHOLD.den]

(***************************************************************************)
(* build_penetapan_output                                                  *)
(***************************************************************************)

\* The entry built from the document point at scan position i.
DocumentEntry(points, i) ==
  [point |-> i,
   query_source_document |-> points[i].source,
   query_text |-> points[i].text,
   heading |-> points[i].heading,
   order |-> ExtractOrder(points[i])]

\* not allowed_orders or order_value in allowed_orders
OrderAllowed(order_value, allowed) ==
  allowed = {} \/ (order_value.t = "int" /\ order_value.v \in allowed)

\* The loop over document_points of build_penetapan_output.
PenetapanEntries(points, allowed) ==
  SelectSeq([i \in 1..Len(points) |-> DocumentEntry(points, i)],
            LAMBDA e : OrderAllowed(e.order, allowed))

SeqOrders(items) == [i \in 1..Len(items) |-> items[i].order]

\* penetapan_entries left in scan order.
SortEntriesSkipped(items) == items

\* penetapan_entries.sort(key=lambda item: item.get("order") or 0)
SortEntries(items) == SortByOrder(items)

Fail(code) ==
  /\ pc' = "failed"
  /\ status' = code

\* Lines 306-341: options, the scan of the document collection, the order
\* filter and the sort.
PenetapanScan ==
  /\ builder = "penetapan"
  /\ pc = "start"
  /\ LET allowed == CoerceAllowedOrders(metadata.allowed_orders,
                                        DEFAULT_PENETAPAN_ALLOWED_ORDERS)
         files == DiscoverReferenceFiles(metadata, report)
         thr == CoerceThreshold(metadata.similarity_threshold)
         scan == ScrollAllPoints(documents, TRUE)
         entries == PenetapanEntries(scan.records, allowed)
     IN  IF ~thr.ok
           THEN Fail(500) /\ UNCHANGED <<optionVars, penetapan_entries>>
         ELSE IF scan.raised \/ scan.records = <<>>
           THEN Fail(404) /\ UNCHANGED <<optionVars, penetapan_entries>>
         ELSE IF SortRaises(SeqOrders(entries))
           THEN Fail(500) /\ UNCHANGED <<optionVars, penetapan_entries>>
         ELSE /\ allowed_orders' = allowed
              /\ reference_files' = files
              /\ similarity_threshold' = [num |-> thr.num, den |-> thr.den]
              /\ penetapan_entries' = SortEntries(entries)
              /\ pc' = "join"
              /\ UNCHANGED status
  /\ UNCHANGED <<gpuVars, inputVars, pelVars, hyperlink_map, penetapan_hyperlink,
                 total_links, pos, payload, meta>>

\* The hyperlink entry built from the hyperlink point at scan position i.
HyperlinkEntry(points, i) ==
  [point |-> i,
   title |-> points[i].text,
   heading |-> points[i].heading,
   order |-> ExtractOrder(points[i])]

\* hyperlink_map.setdefault(heading, []).append(entry) over the scan: the
\* points with a heading, grouped by heading, each group in scan order.
GroupByHeading(points) ==
  LET all == [i \in 1..Len(points) |-> HyperlinkEntry(points, i)]
      headings == {points[i].heading : i \in 1..Len(points)} \ {NoHeading}
  IN  [h \in headings |-> SelectSeq(all, LAMBDA e : e.heading = h)]

\* The hyperlink_map of build_penetapan_output (lines 343-358).
PenetapanHyperlinkMap(points) == GroupByHeading(points)

\* Lines 343-358.
PenetapanJoin ==
  /\ builder = "penetapan"
  /\ pc = "join"
  /\ LET scan == ScrollAllPoints(hyperlinks, FALSE)
     IN  IF scan.raised
           THEN Fail(404) /\ UNCHANGED <<hyperlink_map, pos>>
           ELSE /\ hyperlink_map' = PenetapanHyperlinkMap(scan.records)
                /\ pos' = 1
                /\ pc' = "match"
                /\ UNCHANGED status
  /\ UNCHANGED <<gpuVars, inputVars, pelVars, optionVars, penetapan_entries,
                 penetapan_hyperlink, total_links, payload, meta>>

\* The titles and file names of the requests of the model.
TitleAnnexA ==
  <<"A", "n", "n", "e", "x", " ", "A", " ", "R", "e", "p", "o", "r", "t", ".", "p", "d", "f">>

TitleAnnexB == <<"A", "n", "n", "e", "x", " ", "B", ".", "p", "d", "f">>

TitleOther == <<"O", "T", "H", "E", "R", ".", "P", "D", "F">>

TitleZz == <<"z", "z">>

FileAnnexA ==
  <<"a", "n", "n", "e", "x", "_", "a", "_", "r", "e", "p", "o", "r", "t", ".", "p", "d", "f">>

FileOther == <<"o", "t", "h", "e", "r", ".", "p", "d", "f">>

FileOtherMixed == <<"O", "t", "h", "e", "r", ".", "p", "d", "f">>

MatchTitles == {TitleAnnexA, TitleAnnexB, TitleOther, TitleZz, <<>>}

FileNames == {FileAnnexA, FileOther, FileOtherMixed}

\* The ratio of the strings as they are, without lower().
ScoreCaseSensitive(text_to_match, candidate) == Ratio(text_to_match, candidate)

\* SequenceMatcher(None, text_to_match.lower(), candidate.lower()).ratio()
Score(text_to_match, candidate) ==
  Ratio(Lower(text_to_match), Lower(candidate))

\* The inner loop with >= in place of >: the last candidate wins a tie.
BestMatchLast(text_to_match, candidates) ==
  LET score == [i \in 1..Len(candidates) |->
                  Score(text_to_match, candidates[i])]
      F[i \in 0..Len(candidates)] ==
        IF i = 0
          THEN [found |-> FALSE, best_match |-> <<>>,
                highest_score |-> FracZero]
        ELSE IF FracGeq(score[i], F[i - 1].highest_score)
                /\ FracGreater(score[i], FracZero)
          THEN [found |-> TRUE, best_match |-> candidates[i],
                highest_score |-> score[i]]
        ELSE F[i - 1]
  IN  F[Len(candidates)]

\* The inner loop of lines 382-388: the candidate with the highest ratio,
\* the first one on a tie; none when every ratio is 0.
BestMatch(text_to_match, candidates) ==
  LET score == [i \in 1..Len(candidates) |->
                  Score(text_to_match, candidates[i])]
      F[i \in 0..Len(candidates)] ==
        IF i = 0
          THEN [found |-> FALSE, best_match |-> <<>>,
                highest_score |-> FracZero]
        ELSE IF FracGreater(score[i], F[i - 1].highest_score)
          THEN [found |-> TRUE, best_match |-> candidates[i],
                highest_score |-> score[i]]
        ELSE F[i - 1]
  IN  F[Len(candidates)]

\* The acceptance test with > in place of >=.
AcceptedAbove(m, threshold) ==
  m.found /\ m.best_match # <<>> /\ ScoreGreater(m.highest_score, threshold)

\* if best_match and highest_score >= similarity_threshold
Accepted(m, threshold) ==
  m.found /\ m.best_match # <<>> /\ ScoreGeq(m.highest_score, threshold)

\* Lines 377-396 for one entry: the matched file names and the unmatched
\* titles of its old references.
MatchLinks(old_references, files, threshold) ==
  LET active == files # <<>> /\ old_references # <<>>
      idx == IF active THEN 1..Len(old_references) ELSE {}
      m == [i \in idx |-> BestMatch(old_references[i].title, files)]
  IN  [matched_files |->
         {m[i].best_match : i \in {k \in idx : Accepted(m[k], threshold)}},
       unmatched_documents |->
         {old_references[i].title :
            i \in {k \in idx : /\ ~Accepted(m[k], threshold)
                               /\ old_references[k].title # <<>>}}]

\* Lines 398-404: the titles of the old references that have one.
FlattenedReferences(old_references) ==
  LET titled == SelectSeq(old_references, LAMBDA ref : ref.title # <<>>)
  IN  [i \in 1..Len(titled) |-> titled[i].title]

\* The record appended to penetapan_hyperlink for one entry (lines 363-406).
\* old_references is the joined list the record is computed from; a heading
\* of NoHeading and an empty documents_with_unmatched_links stand for an
\* absent key.
DocumentPayload(entry, map, files, threshold) ==
  LET old_references == MapGet(map, entry.heading)
      links == MatchLinks(old_references, files, threshold)
  IN  [point |-> entry.point,
       query_text |-> entry.query_text,
       order |-> entry.order,
       query_source_document |-> entry.query_source_document,
       number_of_links |-> Len(old_references),
       old_references |-> old_references,
       heading |-> entry.heading,
       new_reference_list |-> SortedStrings(links.matched_files),
       documents_with_unmatched_links |->
         SortedStrings(links.unmatched_documents),
       old_reference_list |-> FlattenedReferences(old_references)]

\* One pass of the loop of lines 362-406.
PenetapanEntry ==
  /\ builder = "penetapan"
  /\ pc = "match"
  /\ pos <= Len(penetapan_entries)
  /\ LET document_payload ==
           DocumentPayload(penetapan_entries[pos], hyperlink_map,
                           reference_files, similarity_threshold)
     IN  /\ penetapan_hyperlink' = Append(penetapan_hyperlink, document_payload)
         /\ total_links' = total_links + document_payload.number_of_links
  /\ pos' = pos + 1
  /\ UNCHANGED <<gpuVars, inputVars, pelVars, optionVars, pc, status,
                 penetapan_entries, hyperlink_map, payload, meta>>

\* Lines 408-423: the payload and the pruned metadata map.
PenetapanFinish ==
  /\ builder = "penetapan"
  /\ pc = "match"
  /\ pos > Len(penetapan_entries)
  /\ payload' = [summary |-> <<Len(penetapan_hyperlink)>>,
                 results |-> penetapan_hyperlink]
  /\ meta' = [hyperlink_collection |-> hyperlinks.present
                                         /\ hyperlinks.points # <<>>,
              allowed_orders |-> allowed_orders,
              reference_files_used |-> reference_files,
              penetapan_records |-> Len(penetapan_entries),
              hyperlink_records |->
                Len(ScrollAllPoints(hyperlinks, FALSE).records),
              total_links_processed |-> total_links,
              chunks_returned |-> Len(penetapan_hyperlink)]
  /\ pc' = "done"
  /\ status' = 200
  /\ UNCHANGED <<gpuVars, inputVars, pelVars, optionVars, penetapan_entries,
                 hyperlink_map, penetapan_hyperlink, total_links, pos>>

(***************************************************************************)
(* build_pelaksanaan_output                                                *)
(***************************************************************************)

\* The loop over document_points of build_pelaksanaan_output (lines
\* 464-482): points without text and points outside the allowed orders are
\* skipped.
PelaksanaanEntries(points, allowed) ==
  SelectSeq([i \in 1..Len(points) |-> DocumentEntry(points, i)],
            LAMBDA e : e.query_text # <<>> /\ OrderAllowed(e.order, allowed))

\* heading_to_query_map: for each heading, the text of the first kept entry
\* (in scan order) that has it.
HeadingToQueryMap(entries) ==
  LET headings == {entries[i].heading : i \in 1..Len(entries)} \ {NoHeading}
      first(h) == CHOOSE i \in 1..Len(entries) :
                    /\ entries[i].heading = h
                    /\ \A m \in 1..(i - 1) : entries[m].heading # h
  IN  [h \in headings |-> entries[first(h)].query_text]

SecOr(a, b) == IF SecTruthy(a) THEN a ELSE b

\* Lines 426-486. Each option is read as metadata.get("pelaksanaan_<key>")
\* or metadata.get("<key>"); the requests of the model carry the plain keys.
PelaksanaanScan ==
  /\ builder = "pelaksanaan"
  /\ pc = "start"
  /\ LET allowed ==
           CoerceAllowedOrders(
             RawOr(RawNone, metadata.allowed_orders),
             DEFAULT_PELAKSANAAN_ALLOWED_ORDERS)
         sections ==
           CoerceSectionCollections(
             SecOr(SecNone, metadata.section_collections),
             DEFAULT_PELAKSANAAN_SECTION_COLLECTIONS)
         scan == ScrollAllPoints(documents, TRUE)
         entries == PelaksanaanEntries(scan.records, allowed)
         unchanged == UNCHANGED <<allowed_orders, section_collections,
                                  reference_top_k, nested_top_k,
                                  penetapan_entries, heading_to_query_map>>
     IN  IF scan.raised \/ scan.records = <<>> THEN Fail(404) /\ unchanged
         ELSE IF SortRaises(SeqOrders(entries)) THEN Fail(500) /\ unchanged
         ELSE IF entries = <<>> THEN Fail(404) /\ unchanged
         ELSE /\ allowed_orders' = allowed
              /\ section_collections' = sections
              /\ reference_top_k' =
                   CoercePositiveInt(PyOr(metadata.reference_top_k, None),
                                     PELAKSANAAN_REFERENCE_TOP_K)
              /\ nested_top_k' =
                   CoercePositiveInt(PyOr(metadata.nested_reference_top_k, None),
                                     PELAKSANAAN_NESTED_TOP_K)
              /\ heading_to_query_map' = HeadingToQueryMap(entries)
              /\ penetapan_entries' = SortEntries(entries)
              /\ pc' = "join"
              /\ UNCHANGED status
  /\ UNCHANGED <<gpuVars, inputVars, penVars, hyperlink_map, penetapan_hyperlink, pos,
                 narasi_chunks, active_key, title_locations, found_titles,
                 queried, payload, meta>>

\* for items in hyperlink_map.values(): items.sort(key=order or 0)
SortGroups(map) == [h \in DOMAIN map |-> SortByOrder(map[h])]

\* The hyperlink_map of build_pelaksanaan_output (lines 488-503).
PelaksanaanHyperlinkMap(points) == SortGroups(GroupByHeading(points))

\* One element of penetapan_hyperlink in build_pelaksanaan_output.
JoinedEntry(entry, map) ==
  [heading |-> entry.heading,
   order |-> entry.order,
   original_order |-> entry.order,
   query_text |-> entry.query_text,
   number_of_links |-> Len(MapGet(map, entry.heading)),
   old_reference_list |-> MapGet(map, entry.heading)]

\* Lines 488-518.
PelaksanaanJoin ==
  /\ builder = "pelaksanaan"
  /\ pc = "join"
  /\ LET scan == ScrollAllPoints(hyperlinks, FALSE)
         groups == GroupByHeading(scan.records)
         map == PelaksanaanHyperlinkMap(scan.records)
     IN  IF scan.raised
           THEN Fail(404) /\ UNCHANGED <<hyperlink_map, penetapan_hyperlink>>
         ELSE IF \E h \in DOMAIN groups : SortRaises(SeqOrders(groups[h]))
           THEN Fail(500) /\ UNCHANGED <<hyperlink_map, penetapan_hyperlink>>
           ELSE /\ hyperlink_map' = map
                /\ penetapan_hyperlink' =
                     [i \in 1..Len(penetapan_entries) |->
                        JoinedEntry(penetapan_entries[i], map)]
                /\ pc' = "chunk"
                /\ UNCHANGED status
  /\ UNCHANGED <<gpuVars, inputVars, optionVars, total_links, pelVars,
                 penetapan_entries, pos, payload, meta>>

\* The sub-chunks of the entry at list index `index` (from 0), lines
\* 522-543.
EntryChunks(entry, index) ==
  IF Strip(entry.query_text) = <<>> THEN <<>>
  ELSE LET texts == SplitDocument(entry.query_text)
       IN  [c \in 1..Len(texts) |->
              [page_content |-> texts[c],
               heading |-> entry.heading,
               order |-> index,
               order_heading |-> c - 1,
               original_order |-> entry.original_order,
               old_reference_list |-> entry.old_reference_list]]

ChunkLess(a, b) ==
  a.order < b.order \/ (a.order = b.order /\ a.order_heading < b.order_heading)

RECURSIVE InsertChunk(_, _)
InsertChunk(sorted, c) ==
  IF sorted = <<>> THEN <<c>>
  ELSE IF ChunkLess(c, sorted[Len(sorted)])
    THEN InsertChunk(SubSeq(sorted, 1, Len(sorted) - 1), c)
           \o <<sorted[Len(sorted)]>>
    ELSE Append(sorted, c)

\* narasi_chunks.sort(key=(order, order_heading))
RECURSIVE SortChunks(_)
SortChunks(chunks) ==
  IF chunks = <<>> THEN <<>>
  ELSE InsertChunk(SortChunks(SubSeq(chunks, 1, Len(chunks) - 1)),
                   chunks[Len(chunks)])

\* Lines 520-545: every entry re-chunked, in list order, then sorted.
NarasiChunks(joined) ==
  LET F[i \in 0..Len(joined)] ==
        IF i = 0 THEN <<>> ELSE F[i - 1] \o EntryChunks(joined[i], i - 1)
  IN  SortChunks(F[Len(joined)])

\* sorted(section_collections.keys())[0]
FirstSectionKey(sections) == MinOf(DOMAIN sections)

\* _build_vectorstore for a pair of collections: both stores are built, a
\* collection is not found (404), or the construction fails otherwise (500).
BuildVectorstore == {"built", "not found", "error"}

BuildStatus(built) == IF built = "not found" THEN 404 ELSE 500

\* Lines 520-555.
PelaksanaanChunk ==
  /\ builder = "pelaksanaan"
  /\ pc = "chunk"
  /\ \E built \in BuildVectorstore :
       LET chunks == NarasiChunks(penetapan_hyperlink)
           unchanged == UNCHANGED <<narasi_chunks, active_key, pos>>
       IN  IF chunks = <<>> THEN Fail(404) /\ unchanged
           ELSE IF DOMAIN section_collections = {}
             THEN Fail(422) /\ unchanged
           ELSE IF built # "built" THEN Fail(BuildStatus(built)) /\ unchanged
           ELSE /\ narasi_chunks' = chunks
                /\ active_key' = FirstSectionKey(section_collections)
                /\ pos' = 1
                /\ pc' = "retrieve"
                /\ UNCHANGED status
  /\ UNCHANGED <<gpuVars, inputVars, optionVars, penVars, section_collections,
                 reference_top_k, nested_top_k, heading_to_query_map,
                 title_locations, found_titles, queried, penetapan_entries,
                 hyperlink_map, penetapan_hyperlink, payload, meta>>

(***************************************************************************)
(* The retrieval loop. The vector store is a black box: a similarity query *)
(* either raises or returns at most k documents.                           *)
(***************************************************************************)

\* page_content of the documents the new-reference collections return
Contents == { <<>>, <<"r", "1">>, <<"r", "2">> }

SeqsUpTo(S, n) == UNION {[1..m -> S] : m \in 0..n}

\* What one stage-2 query does: it raises, or returns up to k documents.
NestedOutcomes(k) ==
  {[failed |-> TRUE, docs |-> <<>>]}
    \cup {[failed |-> FALSE, docs |-> d] : d \in SeqsUpTo(Contents, k)}

\* What stage 1 does for one sub-chunk: it raises, or returns up to rk
\* documents, each followed by its stage-2 query.
Stage1Outcomes(rk, nk) ==
  {[failed |-> TRUE, results |-> <<>>]}
    \cup {[failed |-> FALSE, results |-> r] :
            r \in SeqsUpTo(NestedOutcomes(nk), rk)}

\* Lines 559-564: the key active for the sub-chunk at loop index `index`.
RouteKey(index, sections, active) ==
  IF index \in DOMAIN sections /\ index # active THEN index ELSE active

\* Lines 579-632: a failed stage-2 query counts as no nested result.
ProcessedRetrievalResults(outcome) ==
  [i \in 1..Len(outcome.results) |->
     [nested_search_results |->
        [j \in 1..Len(outcome.results[i].docs) |->
           [page_content |-> outcome.results[i].docs[j]]]]]

\* The test without found_titles.
TitleSkippedWhenEmpty(title, found) == title = <<>>

\* if not title or title in found_titles: continue
TitleSkipped(title, found) == title = <<>> \/ title \in found

\* Lines 634-658: the title-location records one sub-chunk adds, given the
\* titles found before it.
NewTitleLocations(chunk, query_text, results, found) ==
  LET refs == chunk.old_reference_list
      F[i \in 0..Len(refs)] ==
        IF i = 0 THEN [locations |-> <<>>, found |-> found]
        ELSE LET title == refs[i].title
                 prev == F[i - 1]
             IN  IF \/ TitleSkipped(title, prev.found)
                    \/ ~Contains(Lower(query_text), Lower(title))
                   THEN prev
                   ELSE [locations |->
                           Append(prev.locations,
                                  [title |-> title,
                                   found_in_chunk |->
                                     [heading |-> chunk.heading,
                                      order |-> chunk.order,
                                      order_heading |-> chunk.order_heading,
                                      original_order |-> chunk.original_order],
                                   chunk_text |-> query_text,
                                   retrieval_search_result |-> results]),
                         found |-> prev.found \cup {title}]
  IN  F[Len(refs)]

\* A stage-1 failure that is not caught and ends the request.
Stage1FailureRaised ==
  /\ Fail(500)
  /\ UNCHANGED <<pos, title_locations, found_titles>>

\* A failed stage-1 query treated as an empty result list: the titles of
\* the sub-chunk are recorded with no retrieval results.
Stage1FailureRecordsTitles ==
  LET chunk == narasi_chunks[pos]
      new == NewTitleLocations(chunk, Strip(chunk.page_content), <<>>,
                               found_titles)
  IN  /\ title_locations' = title_locations \o new.locations
      /\ found_titles' = new.found
      /\ pos' = pos + 1
      /\ UNCHANGED <<pc, status>>

\* What a failed stage-1 query does to the loop (lines 575-577): the
\* sub-chunk is left and the loop goes on with the next one.
AfterStage1Failure ==
  /\ pos' = pos + 1
  /\ UNCHANGED <<pc, status, title_locations, found_titles>>

\* One pass of the loop of lines 559-658.
PelaksanaanRetrieve ==
  /\ builder = "pelaksanaan"
  /\ pc = "retrieve"
  /\ pos <= Len(narasi_chunks)
  /\ LET index == pos - 1
         chunk == narasi_chunks[pos]
         key == RouteKey(index, section_collections, active_key)
         query_text == Strip(chunk.page_content)
     IN  /\ active_key' = key
         /\ \E built \in IF key # active_key THEN BuildVectorstore
                                               ELSE {"built"} :
            IF built # "built"
              THEN /\ Fail(BuildStatus(built))
                   /\ UNCHANGED <<pos, title_locations, found_titles, queried>>
            ELSE IF query_text = <<>>
              THEN /\ pos' = pos + 1
                   /\ UNCHANGED <<pc, status, title_locations, found_titles,
                                  queried>>
              ELSE \E outcome \in Stage1Outcomes(reference_top_k, nested_top_k) :
                     /\ queried' =
                          Append(queried,
                                 [index |-> index,
                                  order |-> chunk.order,
                                  key |-> key,
                                  reference |-> section_collections[key][1],
                                  new_reference |-> section_collections[key][2],
                                  failed |-> outcome.failed,
                                  nested_failed |->
                                    Cardinality({i \in 1..Len(outcome.results) :
                                                   outcome.results[i].failed})])
                     /\ IF outcome.failed THEN AfterStage1Failure
                        ELSE LET new == NewTitleLocations(
                                          chunk, query_text,
                                          ProcessedRetrievalResults(outcome),
                                          found_titles)
                             IN  /\ title_locations' =
                                      title_locations \o new.locations
                                 /\ found_titles' = new.found
                                 /\ pos' = pos + 1
                                 /\ UNCHANGED <<pc, status>>
  /\ UNCHANGED <<gpuVars, inputVars, optionVars, penVars, section_collections,
                 reference_top_k, nested_top_k, heading_to_query_map,
                 narasi_chunks, penetapan_entries, hyperlink_map,
                 penetapan_hyperlink, payload, meta>>

\* The content of the first nested result of the first stage-1 result only.
FirstNestedContentOnly(retrieval_results) ==
  IF retrieval_results = <<>> THEN <<>>
  ELSE IF retrieval_results[1].nested_search_results = <<>> THEN <<>>
  ELSE retrieval_results[1].nested_search_results[1].page_content

\* _extract_nested_reference_content(retrieval_results)
ExtractNestedReferenceContent(retrieval_results) ==
  LET flat == Concat([i \in 1..Len(retrieval_results) |->
                        [j \in 1..Len(retrieval_results[i].nested_search_results)
                           |-> retrieval_results[i].nested_search_results[j]
                                 .page_content]])
      nonempty == SelectSeq(flat, LAMBDA c : c # <<>>)
  IN  IF nonempty = <<>> THEN <<>> ELSE nonempty[1]

\* The section of an order group with every collected content kept, also
\* one collected before.
SectionWithRepeats(order_value, items, map) ==
  LET headed == SelectSeq(items,
                          LAMBDA it : HasHeading(it.found_in_chunk.heading))
      heading == IF headed = <<>> THEN NoHeading
                 ELSE headed[1].found_in_chunk.heading
      content(i) == ExtractNestedReferenceContent(items[i].retrieval_search_result)
      filled == SelectSeq([i \in 1..Len(items) |-> content(i)],
                          LAMBDA c : c # <<>>)
  IN  [order |-> order_value,
       heading |-> heading,
       past_narrative |-> MapGet(map, heading),
       new_references |-> [i \in 1..Len(filled) |-> [content |-> filled[i]]]]

\* Lines 670-699 for the items of one order group: the section, with an
\* empty new_references when nothing was collected.
Section(order_value, items, map) ==
  LET headed == SelectSeq(items,
                          LAMBDA it : HasHeading(it.found_in_chunk.heading))
      heading == IF headed = <<>> THEN NoHeading
                 ELSE headed[1].found_in_chunk.heading
      mapped == SelectSeq(items,
                          LAMBDA it : /\ HasHeading(it.found_in_chunk.heading)
                                      /\ it.found_in_chunk.heading \in DOMAIN map
                                      /\ map[it.found_in_chunk.heading] # <<>>)
      past_narrative ==
        IF mapped # <<>> THEN map[mapped[1].found_in_chunk.heading]
        ELSE IF heading \in DOMAIN map THEN map[heading]
        ELSE <<>>
      content(i) == ExtractNestedReferenceContent(items[i].retrieval_search_result)
      N[i \in 0..Len(items)] ==
        IF i = 0 THEN <<>>
        ELSE IF content(i) # <<>>
                /\ \A k \in 1..Len(N[i - 1]) : N[i - 1][k].content # content(i)
          THEN Append(N[i - 1], [content |-> content(i)])
          ELSE N[i - 1]
  IN  [order |-> order_value,
       heading |-> heading,
       past_narrative |-> past_narrative,
       new_references |-> N[Len(items)]]

\* Lines 660-699: the sections of the order groups, ascending, those
\* without a new reference dropped.
RECURSIVE SectionsOf(_, _, _)
SectionsOf(orders, locations, map) ==
  IF orders = {} THEN <<>>
  ELSE LET o == MinOf(orders)
           sec == Section(o,
                          SelectSeq(locations,
                                    LAMBDA it : it.found_in_chunk.order = o),
                          map)
       IN  (IF sec.new_references # <<>> THEN <<sec>> ELSE <<>>)
             \o SectionsOf(orders \ {o}, locations, map)

FinalResult(locations, map) ==
  SectionsOf({locations[i].found_in_chunk.order : i \in 1..Len(locations)},
             locations, map)

RECURSIVE SumOf(_)
SumOf(ns) == IF ns = <<>> THEN 0 ELSE Head(ns) + SumOf(Tail(ns))

\* Lines 660-728.
PelaksanaanConsolidate ==
  /\ builder = "pelaksanaan"
  /\ pc = "retrieve"
  /\ pos > Len(narasi_chunks)
  /\ LET final_result == FinalResult(title_locations, heading_to_query_map)
         total_reference_suggestions ==
           SumOf([i \in 1..Len(final_result) |->
                    Len(final_result[i].new_references)])
     IN  /\ payload' = [summary |-> <<Len(final_result),
                                      total_reference_suggestions>>,
                        results |-> final_result]
         /\ meta' = [hyperlink_collection |-> hyperlinks.present
                                                /\ hyperlinks.points # <<>>,
                     allowed_orders |-> allowed_orders,
                     section_collections |-> section_collections,
                     penetapan_records |-> Len(penetapan_entries),
                     hyperlink_records |->
                       Len(ScrollAllPoints(hyperlinks, FALSE).records),
                     chunks_processed |-> Len(narasi_chunks),
                     title_matches |-> Len(title_locations),
                     chunks_returned |-> Len(final_result)]
  /\ pc' = "done"
  /\ status' = 200
  /\ UNCHANGED <<gpuVars, inputVars, optionVars, penVars, pelVars, penetapan_entries,
                 hyperlink_map, penetapan_hyperlink, pos>>

(***************************************************************************)
(* Inputs: stored collections and request options                          *)
(***************************************************************************)

MaxDocs == 3

MaxLinks == 3

MaxTitles == 2

MaxNarratives == 2

MaxReferences == 2

Point(text, heading, metadata_order, order, source) ==
  [text |-> text, heading |-> heading, metadata_order |-> metadata_order,
   order |-> order, source |-> source]

Collection(points) == [present |-> TRUE, points |-> points]

Absent == [present |-> FALSE, points |-> <<>>]

Options(allowed, files, threshold, sections, rk, nk) ==
  [allowed_orders |-> allowed, reference_files |-> files,
   reference_filenames |-> RawNone, files |-> RawNone,
   similarity_threshold |-> threshold, section_collections |-> sections,
   reference_top_k |-> rk, nested_reference_top_k |-> nk]

ThresholdNone == [t |-> "none", num |-> 0, den |-> 1, s |-> <<>>]

ThresholdNum(num, den) == [t |-> "num", num |-> num, den |-> den, s |-> <<>>]

ThresholdStr(str) == [t |-> "str", num |-> 0, den |-> 1, s |-> str]

DefaultOptions ==
  Options(RawNone, RawNone, ThresholdNone, SecNone, None, None)

TextSeeAb == <<"s", "e", "e", " ", "A", "b">>

TextTwoParagraphs ==
  <<"h", "a", "s", " ", "A", "B", " ", "x", "x", "\n", "\n", "a", "n", "d", " ", "c", "d", " ", "y", "y">>

TextBlank == <<" ">>

TitleAb == <<"A", "b">>

TitleLowerAb == <<"a", "b">>

TitleCd == <<"C", "d">>

SourceA == <<"a", ".", "p", "d", "f">>

SourceB == <<"d", "i", "r", "/", "b", ".", "p", "d", "f">>

\* Document points whose order comes from the nested field, from the
\* top-level field, from a numeric string, from text that is no number, or
\* is missing.
OrderPoints ==
  { Point(TextSeeAb, "H1", PyI(5), None, SourceA),
    Point(TextSeeAb, "H2", PyI(5), PyI(3), SourceB),
    Point(TextSeeAb, "H2", None, PyI(0), SourceA),
    Point(TextSeeAb, "H1", PyS(<<"1", "0">>), PyI(3), SourceA),
    Point(TextSeeAb, NoHeading, PyI(3), PyI(5), SourceA),
    Point(TextSeeAb, "H1", PyS(<<"x">>), PyI(5), SourceA),
    Point(TextSeeAb, "H1", None, None, SourceA) }

\* allowed_orders overrides: absent, [], [3, 5], ["5", "x"], "0, 3" and a
\* value of another type
AllowedOverrides ==
  { RawNone,
    RawList(<<>>),
    RawList(<<PyI(3), PyI(5)>>),
    RawList(<<PyS(<<"5">>), PyS(<<"x">>)>>),
    RawStr(<<"0", ",", " ", "3">>),
    RawOther }

\* Hyperlink points: titles under two headings and under none, with orders
\* out of scan order, a missing order and an empty title.
LinkPoints ==
  { Point(TitleAb, "H1", PyI(2), None, <<>>),
    Point(TitleCd, "H1", PyI(1), None, <<>>),
    Point(TitleLowerAb, "H2", None, PyI(1), <<>>),
    Point(<<>>, "H1", None, None, <<>>),
    Point(TitleZz, NoHeading, PyI(0), None, <<>>) }

\* Document collections to join the hyperlinks to; every order is allowed.
JoinDocuments ==
  { <<Point(TextSeeAb, "H1", PyI(5), None, SourceA)>>,
    <<Point(TextSeeAb, "H2", PyI(10), None, SourceB),
      Point(TextSeeAb, "H1", PyI(0), None, SourceA)>>,
    <<Point(TextSeeAb, "H1", PyI(5), None, SourceA),
      Point(TextSeeAb, NoHeading, PyI(5), None, SourceA),
      Point(TextSeeAb, "H1", PyI(0), None, SourceB)>> }

\* reference_files overrides: absent, one name, lists (one with a blank
\* item and two names equal but for case)
FileOverrides ==
  { [t |-> "none", items |-> <<>>, s |-> <<>>],
    [t |-> "str", items |-> <<>>, s |-> FileOther],
    [t |-> "list", items |-> <<FileAnnexA, FileOther>>, s |-> <<>>],
    [t |-> "list", items |-> <<<<" ">>, FileOtherMixed, FileOther>>,
     s |-> <<>>] }

\* similarity_threshold overrides: absent, 1, 0.63, 0.6, 0.01, 0, "0.9",
\* "abc"
ThresholdOverrides ==
  { ThresholdNone, ThresholdNum(1, 1), ThresholdNum(63, 100),
    ThresholdNum(6, 10),
    ThresholdNum(1, 100), ThresholdNum(0, 1),
    ThresholdStr(<<"0", ".", "9">>), ThresholdStr(<<"a", "b", "c">>) }

\* similarity_threshold given as text with a sign, an exponent, an
\* underscore, or as inf or nan: "-1", "+.5", "6_3e-2", "1E1", "inf",
\* "-Infinity", "nan", "1e", " "
ThresholdTexts ==
  { ThresholdStr(<<"-", "1">>), ThresholdStr(<<"+", ".", "5">>),
    ThresholdStr(<<"6", "_", "3", "e", "-", "2">>),
    ThresholdStr(<<"1", "E", "1">>), ThresholdStr(<<"i", "n", "f">>),
    ThresholdStr(<<"-", "I", "n", "f", "i", "n", "i", "t", "y">>),
    ThresholdStr(<<"n", "a", "n">>), ThresholdStr(<<"1", "e">>),
    ThresholdStr(<<" ">>) }

\* The report's own collection: absent, or points of uploaded files.
ReportCollections ==
  { Absent,
    Collection(<< [source |-> <<"d", "/">> \o FileOther],
                  [source |-> <<>>],
                  [source |-> FileOther] >>) }

TitledLinks(titles) ==
  [i \in 1..Len(titles) |-> Point(titles[i], "H1", PyI(i), None, <<>>)]

Init0 ==
  /\ pc = "start"
  /\ status = 0
  /\ allowed_orders = {}
  /\ reference_files = <<>>
  /\ similarity_threshold = DEFAULT_SIMILARITY_THRESHOLD
  /\ penetapan_entries = <<>>
  /\ hyperlink_map = <<>>
  /\ penetapan_hyperlink = <<>>
  /\ total_links = 0
  /\ pos = 0
  /\ section_collections = <<>>
  /\ reference_top_k = 0
  /\ nested_top_k = 0
  /\ heading_to_query_map = <<>>
  /\ narasi_chunks = <<>>
  /\ active_key = 0
  /\ title_locations = <<>>
  /\ found_titles = {}
  /\ queried = <<>>
  /\ payload = [summary |-> <<>>, results |-> <<>>]
  /\ meta = <<>>

\* Any document collection of up to MaxDocs points under every
\* allowed_orders override, the hyperlink collection absent or small.
OrderInputs ==
  /\ documents \in {Absent} \cup {Collection(d) : d \in SeqsUpTo(OrderPoints, MaxDocs)}
  /\ hyperlinks \in {Absent, Collection(<<Point(TitleAb, "H1", PyI(1), None, <<>>)>>)}
  /\ report = Absent
  /\ metadata \in {Options(a, RawNone, ThresholdNone, SecNone, None, None) :
                     a \in AllowedOverrides}

\* Any hyperlink collection of up to MaxLinks points.
JoinInputs ==
  /\ documents \in {Collection(d) : d \in JoinDocuments}
  /\ hyperlinks \in {Absent} \cup {Collection(h) : h \in SeqsUpTo(LinkPoints, MaxLinks)}
  /\ report = Absent
  /\ metadata = DefaultOptions

\* Up to MaxTitles old references of one entry under every
\* similarity_threshold override, the file names given by reference_files
\* or found in the report's own collection.
MatchInputs ==
  /\ documents = Collection(<<Point(TextSeeAb, "H1", PyI(5), None, SourceA)>>)
  /\ hyperlinks \in {Collection(TitledLinks(t)) : t \in SeqsUpTo(MatchTitles, MaxTitles)}
  /\ \E f \in FileOverrides, r \in ReportCollections :
       /\ f.t = "none" \/ r = Absent
       /\ report = r
       /\ metadata \in {Options(RawNone, f, t, SecNone, None, None) :
                          t \in ThresholdOverrides}

\* No /ingest call is made.
IngestIdle ==
  /\ request = [report_uuid |-> "", reads |-> 0, archive |-> "", files |-> <<>>]
  /\ ingest_pc = "idle"
  /\ temp_files = {}
  /\ temp_dirs = {}
  /\ archive_path = ""
  /\ workdir = ""
  /\ written = 0
  /\ loaded = <<>>
  /\ pending = 0
  /\ ingest_status = 0

\* The three keys the file names are read from, each absent, empty or
\* set, with and without the report's own collection; report sources with
\* "." components.
FileKeyInputs ==
  /\ documents = Collection(<<Point(TextSeeAb, "H1", PyI(5), None, SourceA)>>)
  /\ hyperlinks = Collection(TitledLinks(<<TitleOther, TitleAnnexA>>))
  /\ report \in ReportCollections
                \cup {Collection(<< [source |-> <<"d", "/", ".">>],
                                    [source |-> <<".", "/">>],
                                    [source |-> <<"d">>] >>)}
  /\ metadata \in
       {[DefaultOptions EXCEPT !.reference_files = a,
                               !.reference_filenames = b,
                               !.files = c] :
          a \in {RawNone, RawStr(<<>>), RawList(<<>>)},
          b \in {RawNone, RawStr(FileOther)},
          c \in {RawNone, RawStr(<<>>), RawList(<<FileAnnexA>>)}}

\* Two old references and two file names under every textual threshold.
ThresholdTextInputs ==
  /\ documents = Collection(<<Point(TextSeeAb, "H1", PyI(5), None, SourceA)>>)
  /\ hyperlinks \in {Collection(TitledLinks(<<TitleOther, TitleAnnexA>>)),
                     Collection(TitledLinks(<<TitleAnnexA, TitleAnnexB>>))}
  /\ report = Absent
  /\ metadata \in {Options(RawNone, RawList(<<FileAnnexA, FileOther>>), t,
                            SecNone, None, None) : t \in ThresholdTexts}

InitPenetapan ==
  /\ IngestIdle
  /\ builder = "penetapan"
  /\ \/ OrderInputs
     \/ JoinInputs
     \/ MatchInputs
     \/ FileKeyInputs
     \/ ThresholdTextInputs
  /\ Init0

NextPenetapan ==
  \/ PenetapanScan
  \/ PenetapanJoin
  \/ PenetapanEntry
  \/ PenetapanFinish

vars == <<builder, pc, status, documents, hyperlinks, report, metadata,
          allowed_orders, reference_files, similarity_threshold,
          penetapan_entries, hyperlink_map, penetapan_hyperlink, total_links,
          pos, section_collections, reference_top_k, nested_top_k,
          heading_to_query_map, narasi_chunks, active_key, title_locations,
          found_titles, queried, payload, meta, request, ingest_pc,
          temp_files, temp_dirs, archive_path, workdir, written, loaded,
          pending, ingest_status>>

SpecPenetapan == InitPenetapan /\ [][NextPenetapan]_vars

\* Narratives: two paragraphs that make two sub-chunks, one sub-chunk, a
\* blank text (an entry without sub-chunk), no text, and an order that is
\* not allowed by default.
NarrativePoints ==
  { Point(TextTwoParagraphs, "H1", PyI(1), None, SourceA),
    Point(TextSeeAb, "H2", PyI(6), None, SourceB),
    Point(TextSeeAb, "H1", PyI(1), None, SourceB),
    Point(TextBlank, "H1", PyI(1), None, SourceA),
    Point(<<>>, "H2", PyI(6), None, SourceA),
    Point(TextSeeAb, "H2", PyI(5), None, SourceA) }

\* Hyperlinks of the narratives: a title and its lower-case twin under one
\* heading, the same title under another heading, and an order that is text.
ReferencePoints ==
  { Point(TitleAb, "H1", PyI(2), None, <<>>),
    Point(TitleLowerAb, "H1", PyI(1), None, <<>>),
    Point(TitleCd, "H1", None, None, <<>>),
    Point(TitleAb, "H2", PyI(1), None, <<>>),
    Point(TitleZz, "H1", PyS(<<"x">>), None, <<>>) }

\* Narratives whose sub-chunks hold the titles: one entry of two sub-chunks,
\* two entries under two headings, and two entries under one heading.
TitledNarratives ==
  { <<Point(TextTwoParagraphs, "H1", PyI(1), None, SourceA)>>,
    <<Point(TextSeeAb, "H2", PyI(6), None, SourceB),
      Point(TextSeeAb, "H1", PyI(1), None, SourceA)>>,
    <<Point(TextSeeAb, "H1", PyI(6), None, SourceB),
      Point(TextTwoParagraphs, "H1", PyI(1), None, SourceA)>> }

RefA == <<"r", "e", "f", "A">>

NewA == <<"n", "e", "w", "A">>

RefB == <<"r", "e", "f", "B">>

NewB == <<"n", "e", "w", "B">>

\* section_collections overrides: absent, {"0": [refA, newA], "1": [refB,
\* newB]}, {"2": "refB|newB", "x": ..., "1": {refA, newA}, "3": [refB]}
\* and {"-1": [refB, newB], "1": [refA, newA]}
SectionOverrides ==
  { SecNone,
    SecDict(<< <<PyS(<<"0">>), ValList(<<RefA, NewA>>)>>,
               <<PyS(<<"1">>), ValList(<<RefB, NewB>>)>> >>),
    SecDict(<< <<PyS(<<"2">>), ValStr(RefB \o <<"|">> \o NewB)>>,
               <<PyS(<<"x">>), ValList(<<RefB, NewB>>)>>,
               <<PyS(<<"1">>), ValDict(RefA, NewA)>>,
               <<PyS(<<"3">>), ValList(<<RefB>>)>> >>),
    SecDict(<< <<PyS(<<"-", "1">>), ValList(<<RefB, NewB>>)>>,
               <<PyS(<<"1">>), ValList(<<RefA, NewA>>)>> >>) }

\* <<reference_top_k, nested_reference_top_k>> overrides
TopKOverrides ==
  { <<None, None>>, <<PyI(2), None>>, <<PyS(<<"2">>), PyI(0)>>,
    <<PyS(<<"x">>), PyI(2)>> }

\* Any narrative collection of up to MaxNarratives points under every
\* section_collections override.
RouteInputs ==
  /\ documents \in {Absent} \cup {Collection(d) : d \in SeqsUpTo(NarrativePoints, MaxNarratives)}
  /\ hyperlinks = Absent
  /\ metadata \in {Options(RawNone, RawNone, ThresholdNone, sec, None, None) :
                     sec \in SectionOverrides}

\* The allowed_orders overrides.
FilterInputs ==
  /\ documents \in {Collection(d) : d \in SeqsUpTo(NarrativePoints, 1)}
  /\ hyperlinks = Absent
  /\ metadata \in {Options(a, RawNone, ThresholdNone, SecNone, None, None) :
                     a \in AllowedOverrides}

\* Any hyperlink collection of up to MaxReferences points.
TitleInputs ==
  /\ documents \in {Collection(d) : d \in TitledNarratives}
  /\ hyperlinks \in {Collection(h) : h \in SeqsUpTo(ReferencePoints, MaxReferences)}
  /\ metadata = DefaultOptions

\* The top-k overrides, for narratives with one or two titles.
TopKInputs ==
  /\ documents \in {Collection(d) : d \in TitledNarratives}
  /\ hyperlinks \in
       { Collection(<<Point(TitleAb, "H1", PyI(1), None, <<>>)>>),
         Collection(<<Point(TitleCd, "H1", PyI(2), None, <<>>),
                      Point(TitleAb, "H1", PyI(1), None, <<>>)>>) }
  /\ metadata \in {Options(RawNone, RawNone, ThresholdNone, SecNone, k[1], k[2]) :
                     k \in TopKOverrides}

InitPelaksanaan ==
  /\ IngestIdle
  /\ builder = "pelaksanaan"
  /\ report = Absent
  /\ (RouteInputs \/ FilterInputs \/ TitleInputs \/ TopKInputs)
  /\ Init0

NextPelaksanaan ==
  \/ PelaksanaanScan
  \/ PelaksanaanJoin
  \/ PelaksanaanChunk
  \/ PelaksanaanRetrieve
  \/ PelaksanaanConsolidate

SpecPelaksanaan == InitPelaksanaan /\ [][NextPelaksanaan]_vars

(***************************************************************************)
(* The /ingest operation of the GPU service (services/gpuComp/main.py)     *)
(***************************************************************************)

MaxReads == 2

MaxFiles == 2

HexDigits ==
  {"0", "1", "2", "3", "4", "5", "6", "7", "8", "9",
   "a", "b", "c", "d", "e", "f", "A", "B", "C", "D", "E", "F"}

\* str.replace(old, "")
RECURSIVE Remove(_, _)
Remove(str, old) ==
  IF str = <<>> THEN <<>>
  ELSE IF Len(str) >= Len(old) /\ SubSeq(str, 1, Len(old)) = old
    THEN Remove(SubSeq(str, Len(old) + 1, Len(str)), old)
  ELSE <<Head(str)>> \o Remove(Tail(str), old)

\* str.strip('{}')
RECURSIVE StripBraces(_)
StripBraces(str) ==
  IF str = <<>> THEN <<>>
  ELSE IF Head(str) \in {"{", "}"} THEN StripBraces(Tail(str))
  ELSE IF str[Len(str)] \in {"{", "}"}
    THEN StripBraces(SubSeq(str, 1, Len(str) - 1))
  ELSE str

\* int(str, 16) does not raise: the stripped text is an optional sign, an
\* optional 0x or 0X, and hexadecimal digits with single underscores
\* between them (one may follow the prefix).
IsHexLiteral(str) ==
  LET b == Strip(str)
      r == IF b # <<>> /\ Head(b) \in {"+", "-"} THEN Tail(b) ELSE b
      prefixed == Len(r) >= 2 /\ r[1] = "0" /\ r[2] \in {"x", "X"}
      p == IF prefixed THEN SubSeq(r, 3, Len(r)) ELSE r
      d == IF prefixed /\ p # <<>> /\ Head(p) = "_" THEN Tail(p) ELSE p
  IN  /\ d # <<>>
      /\ \A i \in 1..Len(d) : d[i] \in HexDigits \cup {"_"}
      /\ d[1] # "_" /\ d[Len(d)] # "_"
      /\ \A i \in 1..(Len(d) - 1) : ~(d[i] = "_" /\ d[i + 1] = "_")

\* UUID(report_uuid) of line 144 does not raise: "urn:" and "uuid:" are
\* removed, then the braces at the ends and the hyphens; what is left has
\* 32 characters and is read by int(hex, 16). The hyphens are gone, so the
\* number is not negative, and 32 characters keep it below 2^128.
IsUuid(report_uuid) ==
  LET bare == Remove(Remove(report_uuid, <<"u", "r", "n", ":">>),
                     <<"u", "u", "i", "d", ":">>)
      hex == SelectSeq(StripBraces(bare), LAMBDA c : c # "-")
  IN  Len(hex) = 32 /\ IsHexLiteral(hex)

UuidCanonical ==
  <<"3", "f", "2", "b", "8", "c", "1", "e", "-",
   "5", "a", "4", "d", "-", "4", "e", "6", "f", "-", "9", "a", "7", "b", "-", "0", "c", "1", "d", "2", "e", "3", "f", "4", "a", "5", "b">>

UuidBraced == <<"{">> \o UuidCanonical \o <<"}">>

UuidShort == SubSeq(UuidCanonical, 1, 8)

UuidWord == <<"r", "e", "p", "o", "r", "t">>

UuidUrn == <<"u", "r", "n", ":", "u", "u", "i", "d", ":">> \o UuidCanonical

\* 0x and 30 hexadecimal digits
UuidPrefixed ==
  <<"0", "x">> \o SubSeq(SelectSeq(UuidCanonical, LAMBDA c : c # "-"), 1, 30)

\* 31 hexadecimal digits
UuidShortByOne == SubSeq(SelectSeq(UuidCanonical, LAMBDA c : c # "-"), 1, 31)

\* What the archive of a request is: a ZIP file, a ZIP file with an
\* encrypted member, or a file that is no ZIP file.
ArchiveKinds == {"zip", "encrypted zip", "not zip"}

\* A supported file of the archive is loaded into one document chunk, or
\* its loader raises.
FileKinds == {"one chunk", "unreadable"}

\* The temporary paths mkstemp (125) and mkdtemp (76) return.
UploadPath == "gpu-upload-"

WorkPath == "gpu-comp-"

\* shutil.rmtree and Path.unlink remove the path or raise OSError.
RemoveOutcomes == {"removed", "OSError"}

\* cleanup_directory(path): the directories left by it.
CleanupDirectory(path, dirs, outcome) ==
  IF outcome = "removed" THEN dirs \ {path} ELSE dirs

\* cleanup_file(path): the files left by it.
CleanupFile(path, files, outcome) ==
  IF path \notin files THEN files
  ELSE IF outcome = "removed" THEN files \ {path}
  ELSE files

\* What ZipFile(zip_path).extractall(workdir) does with the persisted
\* upload (lines 78-79): an upload without data and a file that is no ZIP
\* file raise BadZipFile, an encrypted member raises RuntimeError.
ExtractAll(req) ==
  IF req.reads = 0 \/ req.archive = "not zip" THEN "BadZipFile"
  ELSE IF req.archive = "encrypted zip" THEN "RuntimeError"
  ELSE "extracted"

\* The path of the i-th supported file under the working directory, the
\* `source` of its documents (line 116).
FilePath(i) ==
  <<"/", "t", "m", "p", "/", "g", "p", "u", "-", "c", "o", "m", "p", "-", "/",
    "f">> \o <<Ascii[Rank("0") + i]>> \o <<".", "p", "d", "f">>

\* load_documents(root): the documents of the files whose loader did not
\* raise, one per file, in the order of the files.
LoadDocuments(files) ==
  LET kept == SelectSeq([i \in 1..Len(files) |-> i],
                        LAMBDA i : files[i] = "one chunk")
  IN  [k \in 1..Len(kept) |-> [source |-> FilePath(kept[k])]]

\* The call ends with an exception that leaves ingest.
IngestRaise(code) ==
  /\ ingest_pc' = "raised"
  /\ ingest_status' = code

\* The variables of the report builders but `report`, the collection
\* named by the report's uuid, which ingest writes.
ragVars == <<builder, documents, hyperlinks, metadata, pc, status,
             optionVars, penetapan_entries, hyperlink_map,
             penetapan_hyperlink, total_links, pos, pelVars, payload, meta>>

\* ensure_collection(collection_name), lines 46-56: when get_collection
\* raises, for a missing collection or for any other reason (line 49 is
\* `except Exception`), recreate_collection is called, which leaves the
\* collection empty or raises; a collection that get_collection finds is
\* left as it is.
EnsureCollection(collection, got, recreated) ==
  IF got = "found" THEN [raised |-> FALSE, collection |-> collection]
  ELSE IF recreated = "created"
    THEN [raised |-> FALSE, collection |-> Collection(<<>>)]
  ELSE [raised |-> TRUE, collection |-> collection]

\* The scan orders of a collection after add_documents: the points get
\* random ids, so the new points come at any place; the points stored
\* before keep their order.
AfterAddDocuments(points, added) ==
  LET all == points \o added
      n == Len(all)
      places == {f \in [1..n -> 1..n] :
                   /\ \A i, j \in 1..n : i # j => f[i] # f[j]
                   /\ \A i, j \in 1..Len(points) : i < j => f[i] < f[j]}
  IN  {[k \in 1..n |-> all[CHOOSE i \in 1..n : f[i] = k]] : f \in places}

\* Lines 143-148 and 124-126: the report_uuid check, ensure_collection and
\* the mkstemp of persist_upload. get_collection finds only a collection
\* that exists, and can raise for one that exists.
IngestStart ==
  /\ ingest_pc = "start"
  /\ IF ~IsUuid(request.report_uuid)
       THEN /\ IngestRaise(422)
            /\ UNCHANGED <<temp_files, report>>
       ELSE \E got \in (IF report.present THEN {"found", "error"}
                                           ELSE {"error"}),
               recreated \in {"created", "error"} :
              LET ensured == EnsureCollection(report, got, recreated)
              IN  IF ensured.raised
                    THEN /\ IngestRaise(500)
                         /\ UNCHANGED <<temp_files, report>>
                    ELSE /\ report' = ensured.collection
                         /\ temp_files' = temp_files \cup {UploadPath}
                         /\ ingest_pc' = "persist"
                         /\ UNCHANGED ingest_status
  /\ UNCHANGED <<ragVars, request, temp_dirs, archive_path, workdir, written,
                 loaded, pending>>

\* Lines 128-132: one pass of the read loop of persist_upload, up to the
\* next await. A read that raises leaves persist_upload and ingest; the
\* read after the last chunk ends the loop.
UploadRead ==
  /\ ingest_pc = "persist"
  /\ \E read \in {"data", "error"} :
       IF read = "error"
         THEN /\ IngestRaise(500)
              /\ UNCHANGED written
       ELSE IF written < request.reads
         THEN /\ written' = written + 1
              /\ UNCHANGED <<ingest_pc, ingest_status>>
       ELSE /\ ingest_pc' = "close"
            /\ UNCHANGED <<written, ingest_status>>
  /\ UNCHANGED <<ragVars, report, request, temp_files, temp_dirs,
                 archive_path, workdir, loaded, pending>>

\* Lines 133-134 and 149-150: the await of upload.close(). When it raises,
\* persist_upload and ingest are left before the try of line 151;
\* otherwise the path is returned and bound to archive_path.
UploadClose ==
  /\ ingest_pc = "close"
  /\ \E closed \in {"closed", "error"} :
       IF closed = "error"
         THEN /\ IngestRaise(500)
              /\ UNCHANGED archive_path
         ELSE /\ archive_path' = UploadPath
              /\ ingest_pc' = "extract"
              /\ UNCHANGED ingest_status
  /\ UNCHANGED <<ragVars, report, request, temp_files, temp_dirs, workdir,
                 written, loaded, pending>>

\* Lines 152 and 75-83: extract_zip.
ExtractZip ==
  /\ ingest_pc = "extract"
  /\ LET extracted == ExtractAll(request)
     IN  IF extracted = "BadZipFile"
           THEN \E removed \in RemoveOutcomes :
                  /\ temp_dirs' = CleanupDirectory(WorkPath,
                                                   temp_dirs \cup {WorkPath},
                                                   removed)
                  /\ pending' = 500
                  /\ ingest_pc' = "finally"
                  /\ UNCHANGED workdir
         ELSE IF extracted = "RuntimeError"
           THEN /\ temp_dirs' = temp_dirs \cup {WorkPath}
                /\ pending' = 500
                /\ ingest_pc' = "finally"
                /\ UNCHANGED workdir
         ELSE /\ temp_dirs' = temp_dirs \cup {WorkPath}
              /\ workdir' = WorkPath
              /\ ingest_pc' = "load"
              /\ UNCHANGED pending
  /\ UNCHANGED <<ragVars, report, request, temp_files, archive_path, written, loaded,
                 ingest_status>>

\* Lines 153-155: load_documents and the test for no document.
IngestLoad ==
  /\ ingest_pc = "load"
  /\ loaded' = LoadDocuments(request.files)
  /\ IF loaded' = <<>>
       THEN pending' = 400 /\ ingest_pc' = "finally"
       ELSE ingest_pc' = "add" /\ UNCHANGED pending
  /\ UNCHANGED <<ragVars, report, request, temp_files, temp_dirs, archive_path,
                 workdir, written, ingest_status>>

\* Lines 157-163: the write to the vector store, which can raise; the
\* documents become points of the report's collection.
AddDocuments ==
  /\ ingest_pc = "add"
  /\ \E add \in {"added", "error"} :
       IF add = "error"
         THEN pending' = 500 /\ UNCHANGED report
         ELSE /\ pending' = 200
              /\ \E points \in AfterAddDocuments(
                                  report.points,
                                  loaded) :
                   report' = Collection(points)
  /\ ingest_pc' = "finally"
  /\ UNCHANGED <<ragVars, request, temp_files, temp_dirs, archive_path,
                 workdir, written, loaded, ingest_status>>

\* Lines 164-167: the finally block, then the return or the exception.
IngestFinally ==
  /\ ingest_pc = "finally"
  /\ \E rmtree \in RemoveOutcomes, unlink \in RemoveOutcomes :
       /\ temp_dirs' = IF workdir # ""
                         THEN CleanupDirectory(workdir, temp_dirs, rmtree)
                         ELSE temp_dirs
       /\ temp_files' = CleanupFile(archive_path, temp_files, unlink)
  /\ ingest_pc' = IF pending = 200 THEN "returned" ELSE "raised"
  /\ ingest_status' = pending
  /\ UNCHANGED <<ragVars, report, request, archive_path, workdir, written, loaded,
                 pending>>

\* An /ingest call with any report_uuid, upload and archive of the bounds,
\* the report's collection missing or holding one point; no report request
\* is made.
InitIngest ==
  /\ builder = "none"
  /\ documents = Absent
  /\ hyperlinks = Absent
  /\ report \in {Absent, Collection(<<[source |-> FileOther]>>)}
  /\ metadata = DefaultOptions
  /\ Init0
  /\ request \in [report_uuid : {UuidCanonical, UuidBraced, UuidShort, UuidWord,
                                 UuidUrn, UuidPrefixed, UuidShortByOne},
                  reads : 0..MaxReads,
                  archive : ArchiveKinds,
                  files : SeqsUpTo(FileKinds, MaxFiles)]
  /\ ingest_pc = "start"
  /\ temp_files = {}
  /\ temp_dirs = {}
  /\ archive_path = ""
  /\ workdir = ""
  /\ written = 0
  /\ loaded = <<>>
  /\ pending = 0
  /\ ingest_status = 0

NextIngest ==
  \/ IngestStart
  \/ UploadRead
  \/ UploadClose
  \/ ExtractZip
  \/ IngestLoad
  \/ AddDocuments
  \/ IngestFinally

SpecIngest == InitIngest /\ [][NextIngest]_vars

(***************************************************************************)
(* Properties                                                              *)
(***************************************************************************)

\* The order the specification gives a stored point: the nested metadata
\* field where present, else the top-level field, read as an integer.
IntOrder(point) ==
  PyInt(IF point.metadata_order # None THEN point.metadata_order ELSE point.order)

\* The scan positions of the document points whose order is in S.
Qualifying(S) ==
  {i \in 1..Len(documents.points) :
     IntOrder(documents.points[i]).ok /\ IntOrder(documents.points[i]).v \in S}

Results == payload.results

\* The stage-1 queries of the request so far that failed, or one of whose
\* stage-2 queries failed.
QueryFailed(q) == q.failed \/ q.nested_failed > 0

\* C1: every sub-chunk whose top-level order is a key of the section
\* mapping is queried against that key's collection pair, and a sub-chunk
\* whose order is no key is queried against the pair active before it (the
\* pair of the smallest key at the start).
C1_RouterFollowsOrder ==
  \A i \in 1..Len(queried) :
    LET q == queried[i]
        before == IF i = 1 THEN MinOf(DOMAIN section_collections)
                  ELSE queried[i - 1].key
        key == IF q.order \in DOMAIN section_collections THEN q.order
               ELSE before
    IN  /\ q.key = key
        /\ q.reference = section_collections[key][1]
        /\ q.new_reference = section_collections[key][2]

\* C2: no title appears in more than one title-location record of a call,
\* whatever queries succeed or fail.
C2_TitleRecordedOnce ==
  \A i, j \in 1..Len(title_locations) :
    i # j => title_locations[i].title # title_locations[j].title

\* A title carried by two sub-chunks whose texts both hold it, both queried
\* with success, and recorded for the first one only.
C2_Witness ==
  /\ pc = "done"
  /\ Len(narasi_chunks) = 2
  /\ Len(queried) = 2
  /\ ~queried[1].failed /\ ~queried[2].failed
  /\ \E t \in found_titles :
       /\ \A c \in 1..2 :
            /\ \E r \in 1..Len(narasi_chunks[c].old_reference_list) :
                 narasi_chunks[c].old_reference_list[r].title = t
            /\ Contains(Lower(narasi_chunks[c].page_content), Lower(t))
       /\ Cardinality({k \in 1..Len(title_locations) :
                         title_locations[k].title = t}) = 1
       /\ \E k \in 1..Len(title_locations) :
            /\ title_locations[k].title = t
            /\ title_locations[k].found_in_chunk.order = narasi_chunks[1].order

\* C3: a step of the retrieval loop in which the stage-1 query or a stage-2
\* query fails leaves the request running and moves to the next sub-chunk,
\* and a finished request has queried every sub-chunk and returns 200.
C3_QueryFailureTolerated ==
  /\ [][(Len(queried') = Len(queried) + 1
           /\ QueryFailed(queried'[Len(queried')]))
          => (pc' = "retrieve" /\ status' = status /\ pos' = pos + 1)]_vars
  /\ [](pc = "done" /\ builder = "pelaksanaan"
          => /\ status = 200
             /\ {queried[i].index : i \in 1..Len(queried)}
                  = 0..(Len(narasi_chunks) - 1))

\* A finished request whose first sub-chunk failed at stage 1 and whose
\* second sub-chunk had a failing stage-2 query.
C3_Witness ==
  /\ pc = "done"
  /\ status = 200
  /\ Len(queried) >= 2
  /\ queried[1].failed
  /\ ~queried[2].failed /\ queried[2].nested_failed > 0

\* C4: the results of build_penetapan are exactly the document chunks whose
\* order (nested field preferred, read as an integer) is in the allowed set,
\* ascending by order, chunks of equal order in scan order.
C4_FilteredAndSorted ==
  (builder = "penetapan" /\ pc = "done") =>
    /\ allowed_orders # {}
    /\ Len(Results) = Cardinality(Qualifying(allowed_orders))
    /\ {Results[k].point : k \in 1..Len(Results)} = Qualifying(allowed_orders)
    /\ \A k \in 1..Len(Results) :
         LET point == documents.points[Results[k].point]
         IN  /\ Results[k].order = PyI(IntOrder(point).v)
             /\ Results[k].query_text = point.text
    /\ \A k, l \in 1..Len(Results) :
         k < l => \/ Results[k].order.v < Results[l].order.v
                  \/ /\ Results[k].order.v = Results[l].order.v
                     /\ Results[k].point < Results[l].point

\* Three chunks under allowed_orders [3, 5]: one is left out and the other
\* two come out in the opposite of their scan order.
C4_Witness ==
  /\ builder = "penetapan" /\ pc = "done"
  /\ metadata.allowed_orders = RawList(<<PyI(3), PyI(5)>>)
  /\ Len(documents.points) = 3
  /\ Len(Results) = 2
  /\ Results[1].point > Results[2].point

\* C5: with allowed_orders = [] no order filter is applied: build_penetapan
\* returns a record for every chunk of the document collection.
C5_EmptySetKeepsAll ==
  (builder = "penetapan" /\ pc = "done"
     /\ metadata.allowed_orders = RawList(<<>>))
    => Len(Results) = Len(documents.points)

\* C6: the old references joined to an entry of heading h are exactly the
\* hyperlink chunks of heading h, in ascending order of their orders.
C6_JoinedAscending ==
  (builder = "penetapan" /\ pc = "done") =>
    \A k \in 1..Len(Results) :
      LET refs == Results[k].old_references
      IN  /\ HasHeading(Results[k].heading) =>
               {refs[i].point : i \in 1..Len(refs)}
                 = {i \in 1..Len(hyperlinks.points) :
                      hyperlinks.points[i].heading = Results[k].heading}
          /\ \A i, j \in 1..Len(refs) :
               (i < j /\ refs[i].order.t = "int" /\ refs[j].order.t = "int")
                 => refs[i].order.v <= refs[j].order.v

\* The request of the title-matching scenario: old references "Annex A
\* Report.pdf" and "Annex B.pdf", files annex_a_report.pdf and other.pdf,
\* threshold 0.6.
AnnexScenario ==
  /\ builder = "penetapan" /\ pc = "done"
  /\ hyperlinks = Collection(TitledLinks(<<TitleAnnexA, TitleAnnexB>>))
  /\ reference_files = <<FileAnnexA, FileOther>>
  /\ similarity_threshold = [num |-> 6, den |-> 10]
  /\ Len(Results) = 1

\* C7 as stated: the first title matches annex_a_report.pdf and the second
\* is recorded as unmatched.
C7_SecondTitleUnmatched ==
  AnnexScenario =>
    /\ Results[1].new_reference_list = <<FileAnnexA>>
    /\ Results[1].documents_with_unmatched_links = <<TitleAnnexB>>

\* C7 amended: both titles match annex_a_report.pdf (ratios 32/36 and
\* 18/29, the second above 0.6), so new_reference_list is that one file and
\* no title is recorded as unmatched.
C7_BothTitlesMatch ==
  AnnexScenario =>
    /\ Results[1].old_reference_list = <<TitleAnnexA, TitleAnnexB>>
    /\ Results[1].new_reference_list = <<FileAnnexA>>
    /\ Results[1].documents_with_unmatched_links = <<>>

C7_Witness ==
  /\ AnnexScenario
  /\ metadata.similarity_threshold = ThresholdNum(6, 10)
  /\ Results[1].number_of_links = 2

\* C8: under a threshold t with 0 < t <= 1, a title equal to a candidate
\* file name but for case scores 1.0 against it, a candidate equal to the
\* title but for case is in new_reference_list, and the title is not in
\* documents_with_unmatched_links.
C8_EqualIgnoringCaseMatches ==
  (builder = "penetapan" /\ pc = "done"
     /\ similarity_threshold.num > 0
     /\ similarity_threshold.num <= similarity_threshold.den) =>
    \A k \in 1..Len(Results) :
      \A i \in 1..Len(Results[k].old_references) :
        LET title == Results[k].old_references[i].title
            equal == {c \in 1..Len(reference_files) :
                        Lower(reference_files[c]) = Lower(title)}
            new == Results[k].new_reference_list
            unmatched == Results[k].documents_with_unmatched_links
        IN  equal # {} =>
              /\ \A c \in equal :
                   Score(title, reference_files[c]).num
                     = Score(title, reference_files[c]).den
              /\ \E f \in 1..Len(new) : Lower(new[f]) = Lower(title)
              /\ \A u \in 1..Len(unmatched) : unmatched[u] # title

\* The title OTHER.PDF against the files Other.pdf and other.pdf under
\* threshold 1: the first of the two is selected.
C8_Witness ==
  /\ builder = "penetapan" /\ pc = "done"
  /\ similarity_threshold = [num |-> 1, den |-> 1]
  /\ reference_files = <<FileOtherMixed, FileOther>>
  /\ Len(Results) = 1
  /\ \E i \in 1..Len(Results[1].old_references) :
       Results[1].old_references[i].title = TitleOther
  /\ Results[1].new_reference_list = <<FileOtherMixed>>

\* A document collection of three chunks at orders 0, 5 and 10, no
\* hyperlink collection, default options.
ThreeChunksNoHyperlinks ==
  /\ builder = "penetapan"
  /\ metadata = DefaultOptions
  /\ ~hyperlinks.present
  /\ documents.present
  /\ Len(documents.points) = 3
  /\ {IntOrder(documents.points[i]) : i \in 1..3}
       = {[ok |-> TRUE, v |-> 0], [ok |-> TRUE, v |-> 5], [ok |-> TRUE, v |-> 10]}

\* C9: build_penetapan returns one record per entry that passed the order
\* filter, with or without old references or matches; with three chunks at
\* orders 0, 5, 10 and no hyperlink collection the request does not fail
\* and returns three records, each with number_of_links = 0 and an empty
\* old_reference_list.
C9_OneRecordPerEntry ==
  /\ (builder = "penetapan" /\ pc = "done") =>
       /\ Len(Results) = Len(penetapan_entries)
       /\ \A k \in 1..Len(Results) :
            Results[k].point = penetapan_entries[k].point
  /\ ThreeChunksNoHyperlinks =>
       /\ pc # "failed"
       /\ pc = "done" =>
            /\ Len(Results) = 3
            /\ \A k \in 1..3 : /\ Results[k].number_of_links = 0
                               /\ Results[k].old_reference_list = <<>>
                               /\ Results[k].new_reference_list = <<>>

C9_Witness ==
  /\ ThreeChunksNoHyperlinks
  /\ pc = "done"
  /\ status = 200
  /\ Len(Results) = 3
  /\ meta.hyperlink_records = 0

\* The title-location records of the order group o, in the order recorded.
GroupItems(o) ==
  SelectSeq(title_locations, LAMBDA it : it.found_in_chunk.order = o)

\* A sequence without the later repetitions of its elements.
RECURSIVE Dedup(_)
Dedup(seq) ==
  IF seq = <<>> THEN <<>>
  ELSE LET init == Dedup(SubSeq(seq, 1, Len(seq) - 1))
           last == seq[Len(seq)]
       IN  IF \E i \in 1..Len(init) : init[i] = last THEN init
           ELSE Append(init, last)

\* For every stage-1 result of a record, the content of its first nested
\* result, those without one left out.
FirstNestedPerResult(item) ==
  LET results == item.retrieval_search_result
      with == SelectSeq(results,
                        LAMBDA r : /\ r.nested_search_results # <<>>
                                   /\ r.nested_search_results[1].page_content # <<>>)
  IN  [i \in 1..Len(with) |-> with[i].nested_search_results[1].page_content]

\* The nested contents of a record in the order the results are walked.
NestedContents(item) ==
  LET results == item.retrieval_search_result
  IN  Concat([i \in 1..Len(results) |->
                [j \in 1..Len(results[i].nested_search_results) |->
                   results[i].nested_search_results[j].page_content]])

\* For a record, its first non-empty nested content, if it has one.
FirstNonEmptyOfRecord(item) ==
  LET contents == NestedContents(item)
      filled == {i \in 1..Len(contents) : contents[i] # <<>>}
  IN  IF filled = {} THEN <<>> ELSE <<contents[MinOf(filled)]>>

GroupOrders ==
  {title_locations[i].found_in_chunk.order : i \in 1..Len(title_locations)}

\* The returned sections are those of the order groups for which collect(o)
\* is not empty, ascending, each with the contents collect(o).
SectionsCollect(collect(_)) ==
  /\ {Results[k].order : k \in 1..Len(Results)}
       = {o \in GroupOrders : collect(o) # <<>>}
  /\ \A k, l \in 1..Len(Results) : k < l => Results[k].order < Results[l].order
  /\ \A k \in 1..Len(Results) :
       [i \in 1..Len(Results[k].new_references) |->
          Results[k].new_references[i].content] = collect(Results[k].order)

CollectPerResult(o) ==
  LET items == GroupItems(o)
  IN  Dedup(Concat([i \in 1..Len(items) |-> FirstNestedPerResult(items[i])]))

CollectPerRecord(o) ==
  LET items == GroupItems(o)
  IN  Dedup(Concat([i \in 1..Len(items) |-> FirstNonEmptyOfRecord(items[i])]))

\* C10 as stated: the new_references of an order group hold, for every
\* record of the group and every stage-1 result of the record, the content
\* of the first nested result of that stage-1 result, without repetitions.
C10_EveryStage1ResultContributes ==
  (builder = "pelaksanaan" /\ pc = "done") => SectionsCollect(CollectPerResult)

\* C10 amended: the new_references of an order group hold, for every record
\* of the group, only the first non-empty nested content met when walking
\* the record's stage-1 results in order, without repetitions; a record
\* contributes at most one suggestion.
C10_OneContentPerRecord ==
  (builder = "pelaksanaan" /\ pc = "done") => SectionsCollect(CollectPerRecord)

\* A record whose two stage-1 results have different first nested contents:
\* the section holds one suggestion, the first.
C10_Witness ==
  /\ builder = "pelaksanaan" /\ pc = "done"
  /\ Len(title_locations) = 1
  /\ LET results == title_locations[1].retrieval_search_result
     IN  /\ Len(results) = 2
         /\ results[1].nested_search_results # <<>>
         /\ results[2].nested_search_results # <<>>
         /\ results[1].nested_search_results[1].page_content = <<"r", "1">>
         /\ results[2].nested_search_results[1].page_content = <<"r", "2">>
  /\ Len(Results) = 1
  /\ Results[1].new_references = <<[content |-> <<"r", "1">>]>>

\* C11: every returned section of build_pelaksanaan has a non-empty
\* new_references list without two items of equal content, the sections are
\* in strictly ascending order, and the summary counts the sections and the
\* items of all new_references lists.
C11_SectionsWellFormed ==
  (builder = "pelaksanaan" /\ pc = "done") =>
    /\ \A k \in 1..Len(Results) :
         /\ Results[k].new_references # <<>>
         /\ \A i, j \in 1..Len(Results[k].new_references) :
              i # j => Results[k].new_references[i].content
                         # Results[k].new_references[j].content
    /\ \A k, l \in 1..Len(Results) : k < l => Results[k].order < Results[l].order
    /\ payload.summary
         = << Len(Results),
              Cardinality(UNION {{<<k, i>> : i \in 1..Len(Results[k].new_references)} :
                                   k \in 1..Len(Results)}) >>

\* Two records of one order group with the same content, returned as one
\* suggestion.
C11_Witness ==
  /\ builder = "pelaksanaan" /\ pc = "done"
  /\ Len(Results) = 1
  /\ Len(GroupItems(Results[1].order)) = 2
  /\ \A i \in 1..2 :
       FirstNonEmptyOfRecord(GroupItems(Results[1].order)[i]) = <<<<"r", "1">>>>
  /\ Results[1].new_references = <<[content |-> <<"r", "1">>]>>
  /\ payload.summary = <<1, 1>>

\* C12: a builder returns a payload only when the required document
\* collection exists and at least one of its chunks passes the allowed-order
\* filter; otherwise the request fails with 404.
C12_NotFoundWhenNothingQualifies ==
  /\ pc = "done" => /\ documents.present
                    /\ Qualifying(allowed_orders) # {}
  /\ (pc = "failed" /\ ~documents.present) => status = 404

\* C13: an override that does not parse never fails the request and is
\* replaced by the default: similarity_threshold = "abc" gives the default
\* threshold, an allowed_orders of an unsupported type gives the default
\* set, a reference_top_k of "x" gives the default top-k.
C13_UnparsableOverrideFallsBack ==
  /\ metadata.similarity_threshold = ThresholdStr(<<"a", "b", "c">>) =>
       /\ status # 500
       /\ (builder = "penetapan" /\ pc \notin {"start", "failed"})
            => similarity_threshold = DEFAULT_SIMILARITY_THRESHOLD
  /\ (metadata.allowed_orders = RawOther /\ pc \notin {"start", "failed"}) =>
       allowed_orders = IF builder = "penetapan"
                          THEN DEFAULT_PENETAPAN_ALLOWED_ORDERS
                          ELSE DEFAULT_PELAKSANAAN_ALLOWED_ORDERS
  /\ (builder = "pelaksanaan" /\ metadata.reference_top_k = PyS(<<"x">>)
        /\ pc \notin {"start", "failed"}) =>
       reference_top_k = PELAKSANAAN_REFERENCE_TOP_K

\* C14: the section mapping used by build_pelaksanaan has only non-negative
\* integer keys, and each value is a pair of two non-empty collection names.
C14_MappingWellFormed ==
  \A key \in DOMAIN section_collections :
    /\ key \in Nat
    /\ Len(section_collections[key]) = 2
    /\ section_collections[key][1] # <<>>
    /\ section_collections[key][2] # <<>>

\* The options of a build_penetapan request as read from its metadata.
RequestAllowed ==
  CoerceAllowedOrders(metadata.allowed_orders, DEFAULT_PENETAPAN_ALLOWED_ORDERS)

RequestFiles == DiscoverReferenceFiles(metadata, report)

RequestThreshold == CoerceThreshold(metadata.similarity_threshold)

\* The hyperlink points, by scan position, that share a heading.
LinksOf(heading) ==
  IF ~HasHeading(heading) \/ ~hyperlinks.present THEN <<>>
  ELSE SelectSeq([i \in 1..Len(hyperlinks.points) |-> i],
                 LAMBDA i : hyperlinks.points[i].heading = heading)

\* The file of `files` a title is matched to: of the files with the highest
\* ratio, the first in input order, where that ratio is above 0 and at
\* least the threshold; <<>> where there is none.
MatchedFile(title, files, threshold) ==
  LET score == SubSeq([c \in 1..Len(files) |-> Score(title, files[c])],
                      1, Len(files))
      top == {c \in 1..Len(files) :
                \A d \in 1..Len(files) : FracGeq(score[c], score[d])}
      first == MinOf(top)
  IN  IF files = <<>> THEN <<>>
      ELSE IF /\ FracGreater(score[first], FracZero)
              /\ ScoreGeq(score[first], threshold)
        THEN <<files[first]>>
      ELSE <<>>

\* A sequence of strings strictly ascending whose elements are the set S.
IsSortedListOf(seq, S) ==
  /\ {seq[i] : i \in 1..Len(seq)} = S
  /\ \A i \in 1..(Len(seq) - 1) : StrLess(seq[i], seq[i + 1])

\* The record of the document point at scan position `point` is the one the
\* stored data and the options determine.
RecordDetermined(record) ==
  LET point == documents.points[record.point]
      links == LinksOf(point.heading)
      titles == [i \in 1..Len(links) |-> hyperlinks.points[links[i]].text]
      files == RequestFiles
      matching == files # <<>> /\ links # <<>>
      file == SubSeq([i \in 1..Len(titles) |->
                        IF matching
                          THEN MatchedFile(titles[i], files, RequestThreshold)
                          ELSE <<>>],
                     1, Len(titles))
      matched == {i \in 1..Len(titles) : matching /\ file[i] # <<>>}
      missed == {i \in 1..Len(titles) :
                   matching /\ file[i] = <<>> /\ titles[i] # <<>>}
  IN  /\ record.query_text = point.text
      /\ record.query_source_document = point.source
      /\ record.heading = point.heading
      /\ record.number_of_links = Len(links)
      /\ record.old_reference_list = SelectSeq(titles, LAMBDA t : t # <<>>)
      /\ IsSortedListOf(record.new_reference_list,
                        {file[i][1] : i \in matched})
      /\ IsSortedListOf(record.documents_with_unmatched_links,
                        {titles[i] : i \in missed})

\* C15: the payload of build_penetapan is determined by the stored data and
\* the options alone: one record per qualifying chunk, in (order, scan
\* position) order, new_reference_list and documents_with_unmatched_links
\* in ascending string order, and a best-match tie won by the first
\* candidate in input order; so two runs on the same inputs return the same
\* payload.
C15_PayloadDetermined ==
  (builder = "penetapan" /\ pc = "done") =>
    /\ {Results[k].point : k \in 1..Len(Results)} = Qualifying(RequestAllowed)
    /\ \A k, l \in 1..Len(Results) :
         k < l => \/ Results[k].order.v < Results[l].order.v
                  \/ /\ Results[k].order.v = Results[l].order.v
                     /\ Results[k].point < Results[l].point
    /\ \A k \in 1..Len(Results) : RecordDetermined(Results[k])
    /\ payload.summary = <<Len(Results)>>

\* The title OTHER.PDF ties between Other.pdf and other.pdf and is matched
\* to the first; "Annex A Report.pdf" matches neither.
C15_Witness ==
  /\ builder = "penetapan" /\ pc = "done"
  /\ reference_files = <<FileOtherMixed, FileOther>>
  /\ Score(TitleOther, FileOtherMixed) = Score(TitleOther, FileOther)
  /\ similarity_threshold = DEFAULT_SIMILARITY_THRESHOLD
  /\ Len(Results) = 1
  /\ Results[1].old_reference_list = <<TitleOther, TitleAnnexA>>
  /\ Results[1].new_reference_list = <<FileOtherMixed>>
  /\ Results[1].documents_with_unmatched_links = <<TitleAnnexA>>

\* The sub-chunk queried j-th has the top-level order of a key that was
\* active at an earlier sub-chunk and was not active just before it.
OrderMatchesEarlierKey(j) ==
  /\ j > 1
  /\ queried[j - 1].key # queried[j].order
  /\ \E i \in 1..(j - 1) : queried[i].key = queried[j].order

\* C16: a sub-chunk whose order matches a key that was active earlier and
\* is not active now is queried against that key's collections again.
C16_SwitchesBack ==
  \A j \in 1..Len(queried) :
    OrderMatchesEarlierKey(j) => queried[j].key = queried[j].order

\* The sub-chunk at position c of the traversal carries title t: its parent
\* entry has a reference with that title and its text holds the title,
\* ignoring case.
Carries(c, t) ==
  /\ \E r \in 1..Len(narasi_chunks[c].old_reference_list) :
       narasi_chunks[c].old_reference_list[r].title = t
  /\ Contains(Lower(Strip(narasi_chunks[c].page_content)), Lower(t))

\* The stage-1 query of the sub-chunk at position c failed, or succeeded.
Stage1Failed(c) ==
  \E i \in 1..Len(queried) : queried[i].index = c - 1 /\ queried[i].failed

Stage1Succeeded(c) ==
  \E i \in 1..Len(queried) : queried[i].index = c - 1 /\ ~queried[i].failed

\* Title t has a title-location record, attached to the sub-chunk at c.
RecordedAt(t, c) ==
  \E k \in 1..Len(title_locations) :
    /\ title_locations[k].title = t
    /\ title_locations[k].found_in_chunk.order = narasi_chunks[c].order
    /\ title_locations[k].found_in_chunk.order_heading
         = narasi_chunks[c].order_heading

\* The titles of the references of the traversed sub-chunks.
CarriedTitles ==
  {t \in UNION {{narasi_chunks[c].old_reference_list[r].title :
                   r \in 1..Len(narasi_chunks[c].old_reference_list)} :
                c \in 1..Len(narasi_chunks)} : t # <<>>}

\* C17 as stated: a title is recorded at the first sub-chunk that carries
\* it, whether the stage-1 query of that sub-chunk failed or not.
C17_FirstCarrierRecorded ==
  (builder = "pelaksanaan" /\ pc = "done") =>
    \A t \in CarriedTitles :
      LET carriers == {c \in 1..Len(narasi_chunks) : Carries(c, t)}
      IN  carriers # {} => RecordedAt(t, MinOf(carriers))

\* C17: a title is recorded at the first sub-chunk that carries it and
\* whose stage-1 query succeeded; a sub-chunk whose stage-1 query failed
\* gets no title-location record, and a title carried only by such
\* sub-chunks is not recorded.
C17_FirstQueriedCarrierRecorded ==
  (builder = "pelaksanaan" /\ pc = "done") =>
    \A t \in CarriedTitles :
      LET carriers == {c \in 1..Len(narasi_chunks) :
                         Carries(c, t) /\ Stage1Succeeded(c)}
      IN  /\ carriers # {} => RecordedAt(t, MinOf(carriers))
          /\ \A c \in 1..Len(narasi_chunks) :
               RecordedAt(t, c) => c \in carriers /\ c = MinOf(carriers)

\* Two sub-chunks carry a title, the stage-1 query of the first failed, and
\* the title is recorded at the second.
C17_Witness ==
  /\ builder = "pelaksanaan" /\ pc = "done"
  /\ Len(narasi_chunks) = 2
  /\ \E t \in CarriedTitles :
       /\ Carries(1, t) /\ Carries(2, t)
       /\ Stage1Failed(1) /\ Stage1Succeeded(2)
       /\ RecordedAt(t, 2) /\ ~RecordedAt(t, 1)

\* C18: in every result record of build_penetapan, number_of_links is the
\* length of old_reference_list, whatever the hyperlink collection holds.
C18_LinksCountList ==
  (builder = "penetapan" /\ pc = "done") =>
    \A k \in 1..Len(Results) :
      Results[k].number_of_links = Len(Results[k].old_reference_list)

\* C19: in every section of build_pelaksanaan, past_narrative is the text
\* of the entry whose index in the sorted filtered list is the section's
\* order, also when two entries have the same heading.
C19_PastNarrativeOfOwnEntry ==
  (builder = "pelaksanaan" /\ pc = "done") =>
    \A k \in 1..Len(Results) :
      Results[k].past_narrative
        = penetapan_entries[Results[k].order + 1].query_text

\* C20: when ingest has ended, by returning or by raising, the temporary
\* archive file of persist_upload and the temporary directory of
\* extract_zip do not exist.
C20_TemporariesRemoved ==
  ingest_pc \in {"returned", "raised"} =>
    /\ UploadPath \notin temp_files
    /\ WorkPath \notin temp_dirs

====
